---- MODULE Spec2Model ----
(***************************************************************************)
(* AwsSecretsManagerService (src/aws-secrets-manager.service.ts): the      *)
(* secret lifecycle handlers (createSecret, updateSecret, deleteSecret)    *)
(* and the rotation-lambda deployment state machine                        *)
(* (deployRotationLambda, removeRotationLambda and their background        *)
(* tasks), and the rotation strategies                                     *)
(* (src/infrastructure/lambda/strategies) with the four steps the vault    *)
(* invokes for a rotation token.                                           *)
(*                                                                         *)
(* Every handler is an async function: it runs atomically from one await   *)
(* to the next, and other handlers interleave at the awaits.  Each action  *)
(* below is one such segment: the effect of the awaited call (the store,   *)
(* the vault or the provisioning tool answering) followed by the           *)
(* synchronous code up to the next await.                                  *)
(***************************************************************************)
EXTENDS Integers, FiniteSets, Sequences, TLC

VARIABLES
    project,            \* the Project table: [ProjectIds -> row]
    activeDeployments,  \* service.ts:31, the in-memory Set<string>
    call,               \* [Callers -> frame of the request handler a caller runs]
    bg,                 \* [Callers -> frame of the background task its call started]
    secret,             \* the Secret table: a set of rows
    vault,              \* AWS Secrets Manager: [Names -> remote secret or Absent]
    nextId,             \* ids the store has handed out
    now,                \* the clock read by new Date()
    target,             \* the system the rotated credential opens: database or IAM
    lambda,             \* [Invokers -> frame of a rotation function invocation]
    cycle               \* [Tokens -> what the rotation steps did for the token]

vars == <<project, activeDeployments, call, bg, secret, vault, nextId, now,
          target, lambda, cycle>>

NULL == "null"

\* ------------------------------------------------------------------ bounds
\* Secret rows the store ever creates (ids 1..MaxSecrets).
MaxSecrets == 2
\* Ticks of the clock.
MaxClock == 2

\* ------------------------------------------------------------------ domains
\* Concurrent callers of the service; each runs one request at a time.
Callers == {"c1", "c2"}
\* Rows of the Project table; "p0" is an id with no row.
ProjectIds == {"p1"}
AllProjectIds == ProjectIds \cup {"p0"}
Arns == {"arnA", "arnB"}

\* ---------------------------------------------------------- provisioning tool
\* What execAsync yields: resolved (ok) or rejected, with the captured stdout.
\* stdout is kept as what the handlers look for in it: the two lock marker
\* substrings, and the first quoted / unquoted lambdaArn it prints.
StdOuts ==
    { [locked |-> FALSE, hint |-> FALSE, quoted |-> NULL, plain |-> NULL],
      [locked |-> TRUE, hint |-> TRUE, quoted |-> NULL, plain |-> NULL],
      [locked |-> TRUE, hint |-> FALSE, quoted |-> NULL, plain |-> NULL],
      [locked |-> FALSE, hint |-> FALSE, quoted |-> "arnA", plain |-> NULL],
      [locked |-> FALSE, hint |-> FALSE, quoted |-> NULL, plain |-> "arnB"] }

ToolResults == [ok : BOOLEAN, stdout : StdOuts]

\* service.ts:470 and :588
IsLockError(stdout) == stdout.locked /\ stdout.hint

\* service.ts:495-499: the quoted match wins, the plain one is the fallback.
ParseLambdaArn(stdout) ==
    IF stdout.quoted # NULL THEN stdout.quoted ELSE stdout.plain

\* ------------------------------------------------------------------ frames
IdleCall ==
    [op |-> "none", pc |-> "idle", projectId |-> NULL, result |-> NULL]

NoTask ==
    [kind |-> "none", pc |-> "none", projectId |-> NULL, arn |-> NULL,
     message |-> NULL, execs |-> 0, unlocks |-> 0]

\* A caller issues one request at a time.
Free(c) == call[c].pc = "idle"

\* The handler has returned or thrown: result is what the caller receives.
Returned(op, p, result) ==
    [op |-> op, pc |-> "ret", projectId |-> p, result |-> result]

\* The caller has taken the answer and may issue its next request.
Return(c) ==
    /\ call[c].pc = "ret"
    /\ call' = [call EXCEPT ![c] = IdleCall]
    /\ UNCHANGED <<project, activeDeployments, bg, secret, vault, nextId, now, target, lambda, cycle>>

\* ---------------------------------------------------------------- deployment
\* service.ts:695-707.  The store may reject the update; the error is logged
\* and swallowed.
UpdatedDeploymentStatus(p, status, message, stored) ==
    IF stored /\ p \in ProjectIds
    THEN [project EXCEPT ![p].deploymentStatus = status,
                         ![p].deploymentMessage = message]
    ELSE project

\* service.ts:396-399 / 535-538: the guard, then the await of findUnique.
TransitionGuard(c, op, p) ==
    /\ Free(c)
    /\ bg[c].pc = "none"
    /\ call' = [call EXCEPT ![c] =
                  IF p \in activeDeployments
                  THEN Returned(op, p, "Conflict")
                  ELSE [op |-> op, pc |-> "find", projectId |-> p, result |-> NULL]]
    /\ UNCHANGED <<project, activeDeployments, bg, secret, vault, nextId, now, target, lambda, cycle>>

\* The id joining the set before the answer of findUnique is looked at.
TransitionFind_JoinFirst(c, op) ==
    /\ call[c].op = op
    /\ call[c].pc = "find"
    /\ activeDeployments' = activeDeployments \cup {call[c].projectId}
    /\ call' = [call EXCEPT ![c] =
                  IF call[c].projectId \in ProjectIds
                  THEN [call[c] EXCEPT !.pc = "status"]
                  ELSE Returned(op, call[c].projectId, "NotFound")]
    /\ UNCHANGED <<project, bg, secret, vault, nextId, now, target, lambda, cycle>>

\* service.ts:402-405 / 540-543: findUnique answers; the id joins the set.
TransitionFind(c, op) ==
    /\ call[c].op = op
    /\ call[c].pc = "find"
    /\ IF call[c].projectId \in ProjectIds
       THEN /\ activeDeployments' = activeDeployments \cup {call[c].projectId}
            /\ call' = [call EXCEPT ![c].pc = "status"]
       ELSE /\ call' = [call EXCEPT ![c] = Returned(op, call[c].projectId, "NotFound")]
            /\ UNCHANGED activeDeployments
    /\ UNCHANGED <<project, bg, secret, vault, nextId, now, target, lambda, cycle>>

\* service.ts:408-418 / 546-556: the initial status is written, the background
\* task is started and the handler returns.
TransitionAccept(c, op, status) ==
    /\ call[c].op = op
    /\ call[c].pc = "status"
    /\ \E stored \in BOOLEAN :
         project' = UpdatedDeploymentStatus(call[c].projectId, status, NULL, stored)
    /\ bg' = [bg EXCEPT ![c] =
                [kind |-> op, pc |-> "find", projectId |-> call[c].projectId,
                 arn |-> NULL, message |-> NULL, execs |-> 0, unlocks |-> 0]]
    /\ call' = [call EXCEPT ![c] = Returned(op, call[c].projectId, "Accepted")]
    /\ UNCHANGED <<activeDeployments, secret, vault, nextId, now, target, lambda, cycle>>

deployRotationLambda(c) ==
    \/ \E p \in AllProjectIds : TransitionGuard(c, "deploy", p)
    \/ TransitionFind(c, "deploy")
    \/ TransitionAccept(c, "deploy", "DEPLOYING")

removeRotationLambda(c) ==
    \/ \E p \in AllProjectIds : TransitionGuard(c, "remove", p)
    \/ TransitionFind(c, "remove")
    \/ TransitionAccept(c, "remove", "REMOVING")

\* A failure inside the internal function: its message reaches the catch of
\* the background handler (service.ts:675-677, 687-689).
Failing(t, message) == [t EXCEPT !.pc = "setFailed", !.message = message]

\* The deploy clearing the reference of the project when it starts.
InternalFind_ClearsReference(c) ==
    /\ bg[c].pc = "find"
    /\ LET t == bg[c]
           p == t.projectId
       IN /\ bg' = [bg EXCEPT ![c] =
                      IF p \notin ProjectIds
                      THEN Failing(t, "Project not found")
                      ELSE IF t.kind = "deploy" /\ ~project[p].credentials
                      THEN Failing(t, "not configured")
                      ELSE [t EXCEPT !.pc = "exec1"]]
          /\ project' = IF p \in ProjectIds /\ t.kind = "deploy"
                        THEN [project EXCEPT ![p].rotationLambdaArn = NULL]
                        ELSE project
    /\ UNCHANGED <<activeDeployments, call, secret, vault, nextId, now, target, lambda, cycle>>

\* service.ts:422-436 (deploy) and 560-564 (remove): the project row is read
\* again; only deploy checks the credentials.
InternalFind(c) ==
    /\ bg[c].pc = "find"
    /\ LET t == bg[c]
           p == t.projectId
       IN bg' = [bg EXCEPT ![c] =
                   IF p \notin ProjectIds
                   THEN Failing(t, "Project not found")
                   ELSE IF t.kind = "deploy" /\ ~project[p].credentials
                   THEN Failing(t, "not configured")
                   ELSE [t EXCEPT !.pc = "exec1"]]
    /\ UNCHANGED <<project, activeDeployments, call, secret, vault, nextId, now, target, lambda, cycle>>

\* The command retried after every failure that shows the lock markers.
InternalExec_RetryAgain(c) ==
    /\ bg[c].pc \in {"exec1", "exec2"}
    /\ \E out \in ToolResults :
         LET t == [bg[c] EXCEPT !.execs = @ + 1]
             failed == IF t.kind = "deploy" THEN "Deployment failed"
                       ELSE "Removal failed"
         IN bg' = [bg EXCEPT ![c] =
                     IF out.ok
                     THEN IF t.kind = "remove"
                          THEN [t EXCEPT !.pc = "save"]
                          ELSE IF ParseLambdaArn(out.stdout) = NULL
                          THEN Failing(t, failed)
                          ELSE [t EXCEPT !.pc = "save",
                                         !.arn = ParseLambdaArn(out.stdout)]
                     ELSE IF IsLockError(out.stdout)
                          THEN [t EXCEPT !.pc = "unlock"]
                          ELSE Failing(t, failed)]
    /\ UNCHANGED <<project, activeDeployments, call, secret, vault, nextId, now, target, lambda, cycle>>

\* service.ts:463-504 (deploy) and 583-596 (remove): the command, first run
\* (exec1) or retry (exec2).
InternalExec(c) ==
    /\ bg[c].pc \in {"exec1", "exec2"}
    /\ \E out \in ToolResults :
         LET t == [bg[c] EXCEPT !.execs = @ + 1]
             failed == IF t.kind = "deploy" THEN "Deployment failed"
                       ELSE "Removal failed"
         IN bg' = [bg EXCEPT ![c] =
                     IF out.ok
                     THEN IF t.kind = "remove"
                          THEN [t EXCEPT !.pc = "save"]
                          ELSE IF ParseLambdaArn(out.stdout) = NULL
                          THEN Failing(t, failed)
                          ELSE [t EXCEPT !.pc = "save",
                                         !.arn = ParseLambdaArn(out.stdout)]
                     ELSE IF t.pc = "exec1" /\ IsLockError(out.stdout)
                          THEN [t EXCEPT !.pc = "unlock"]
                          ELSE Failing(t, failed)]
    /\ UNCHANGED <<project, activeDeployments, call, secret, vault, nextId, now, target, lambda, cycle>>

\* service.ts:474 / 590: npx sst unlock.
InternalUnlock(c) ==
    /\ bg[c].pc = "unlock"
    /\ \E ok \in BOOLEAN :
         LET t == [bg[c] EXCEPT !.unlocks = @ + 1]
         IN bg' = [bg EXCEPT ![c] =
                     IF ok THEN [t EXCEPT !.pc = "exec2"]
                     ELSE Failing(t, IF t.kind = "deploy" THEN "Deployment failed"
                                     ELSE "Removal failed")]
    /\ UNCHANGED <<project, activeDeployments, call, secret, vault, nextId, now, target, lambda, cycle>>

\* service.ts:509-514 / 599-602: the reference is written to the project row
\* (deploy: the parsed ARN; remove: null).  A store error is caught at
\* :521 / :608 and fails the run.
InternalSave(c) ==
    /\ bg[c].pc = "save"
    /\ LET t == bg[c]
           p == t.projectId
       IN \E stored \in BOOLEAN :
            IF stored
            THEN /\ project' = [project EXCEPT ![p].rotationLambdaArn =
                                  IF t.kind = "deploy" THEN t.arn ELSE NULL]
                 /\ bg' = [bg EXCEPT ![c].pc = "setDone"]
            ELSE /\ bg' = [bg EXCEPT ![c] =
                             Failing(t, IF t.kind = "deploy" THEN "Deployment failed"
                                        ELSE "Removal failed")]
                 /\ UNCHANGED project
    /\ UNCHANGED <<activeDeployments, call, secret, vault, nextId, now, target, lambda, cycle>>

\* service.ts:674, 677, 686, 689: the final status of the run.
BackgroundStatus(c) ==
    /\ bg[c].pc \in {"setDone", "setFailed"}
    /\ LET t == bg[c]
           status == IF t.pc = "setFailed" THEN "FAILED"
                     ELSE IF t.kind = "deploy" THEN "DEPLOYED" ELSE "IDLE"
           message == IF t.pc = "setFailed" THEN t.message
                      ELSE IF t.kind = "deploy" THEN "Deployment successful"
                      ELSE "Removal successful"
       IN \E stored \in BOOLEAN :
            project' = UpdatedDeploymentStatus(t.projectId, status, message, stored)
    /\ bg' = [bg EXCEPT ![c].pc = "finally", ![c].message = NULL, ![c].arn = NULL]
    /\ UNCHANGED <<activeDeployments, call, secret, vault, nextId, now, target, lambda, cycle>>

\* The background handler ending without deleting the id from the set.
BackgroundFinally_NoRelease(c) ==
    /\ bg[c].pc = "finally"
    /\ bg' = [bg EXCEPT ![c] = NoTask]
    /\ UNCHANGED <<project, activeDeployments, call, secret, vault, nextId, now, target, lambda, cycle>>

\* service.ts:678-680 / 690-692: finally.
BackgroundFinally(c) ==
    /\ bg[c].pc = "finally"
    /\ activeDeployments' = activeDeployments \ {bg[c].projectId}
    /\ bg' = [bg EXCEPT ![c] = NoTask]
    /\ UNCHANGED <<project, call, secret, vault, nextId, now, target, lambda, cycle>>

\* _deployRotationLambdaBackground / _removeRotationLambdaBackground with the
\* internal function each awaits.
Background(c) ==
    \/ InternalFind(c)
    \/ InternalExec(c)
    \/ InternalUnlock(c)
    \/ InternalSave(c)
    \/ BackgroundStatus(c)
    \/ BackgroundFinally(c)

\* ------------------------------------------------------------ vault and store
Names == {"n1", "n2"}
Values == {"v1", "v2"}
Descriptions == {"d1", "d2"}
\* service.ts:660-665 lists these four.
SecretTypes ==
    {"RDS_CREDENTIALS", "DOCUMENTDB_CREDENTIALS", "AWS_API_KEY", "GENERIC_SECRET"}

\* How a call to the vault ends: the vault answers according to its state
\* ("served"), or the call fails on the way (throttling, network, access
\* denied: "failed") and changes nothing.
VaultOutcomes == {"served", "failed"}

\* A name the vault does not hold.
Absent == [present |-> FALSE, value |-> NULL, rotation |-> FALSE, versions |-> {}]

\* The versions of a secret: each has an id (the ClientRequestToken it was
\* stored under), a value and staging labels.  Ids are <<"svc", k>> for the
\* tokens the SDK generates for the service's writes and <<"tok", t>> for the
\* tokens of rotation events.
StageHolders(versions, stage) == {v \in versions : stage \in v.stages}

\* A staging label is attached to one version at a time: attaching it moves it.
WithStage(versions, stage, id) ==
    {[v EXCEPT !.stages = IF v.id = id THEN @ \cup {stage} ELSE @ \ {stage}] :
        v \in versions}

\* The value GetSecretValue returns by default: that of the AWSCURRENT version.
CurrentValue(versions) ==
    IF StageHolders(versions, "AWSCURRENT") = {} THEN NULL
    ELSE (CHOOSE v \in StageHolders(versions, "AWSCURRENT") : TRUE).value

\* The version id of the k-th write the service makes to a secret.
ServiceVersionId(versions) ==
    <<"svc", 1 + Cardinality({v \in versions : v.id[1] = "svc"})>>

\* service.ts:96-102: CreateSecret with a SecretString makes the first
\* version, labelled AWSCURRENT.
CreatedSecret(value) ==
    [present |-> TRUE, value |-> value, rotation |-> FALSE,
     versions |-> {[id |-> <<"svc", 1>>, value |-> value, stages |-> {"AWSCURRENT"}]}]

\* service.ts:246-251: UpdateSecret with a SecretString makes a new version
\* and moves AWSCURRENT to it; AWSPREVIOUS moves to the version that was
\* current.
UpdatedSecret(e, value) ==
    LET id == ServiceVersionId(e.versions)
        old == StageHolders(e.versions, "AWSCURRENT")
        kept == {[v EXCEPT !.stages =
                     IF v \in old THEN (@ \ {"AWSCURRENT"}) \cup {"AWSPREVIOUS"}
                     ELSE @ \ {"AWSPREVIOUS"}] : v \in e.versions}
    IN [e EXCEPT !.value = value,
                 !.versions = kept \cup
                     {[id |-> id, value |-> value, stages |-> {"AWSCURRENT"}]}]

InVault(n) == vault[n].present

\* service.ts:618-641.  What getProjectAwsConfig throws, or "ok".
ProjectAwsConfig(p) ==
    IF p \notin ProjectIds THEN "NotFound"
    ELSE IF ~project[p].credentials THEN "InvalidConfiguration"
    ELSE "ok"

\* service.ts:659-667
isRotationSupported(type) ==
    type \in {"RDS_CREDENTIALS", "DOCUMENTDB_CREDENTIALS", "AWS_API_KEY",
              "GENERIC_SECRET"}

\* service.ts:61-68 without the check of the lambda ARN.
RotationPrerequisites_NoArn(type, rot, arn) ==
    IF rot /\ ~isRotationSupported(type) THEN "InvalidConfiguration" ELSE "ok"

\* service.ts:61-68: with rotation requested, the type must be supported and
\* the project must have a lambda ARN.
RotationPrerequisites(type, rot, arn) ==
    IF rot /\ ~isRotationSupported(type) THEN "InvalidConfiguration"
    ELSE IF rot /\ arn = NULL THEN "InvalidConfiguration"
    ELSE "ok"

RowsNamed(n) == {r \in secret : r.name = n}
RowsWithId(i) == {r \in secret : r.id = i}

\* The requests a caller has in flight that will still insert a row.
Creating == {c \in Callers : call[c].op = "create" /\ call[c].pc # "ret"}

\* The handler returns or throws: result is what the caller receives.  The
\* frame keeps what the call did; its working values are dropped.
Thrown(f, result) ==
    [f EXCEPT !.pc = "ret", !.result = result, !.value = NULL, !.description = NULL]

CreateThrown(f, result) ==
    [Thrown(f, result) EXCEPT !.error = NULL, !.created = FALSE]

\* ------------------------------------------------------------- createSecret
\* service.ts:53-68: the project row is read and the rotation prerequisites
\* are validated.  The frame also records, for the properties below, what
\* the call met and did: whether a row of that name and project existed when
\* it began (existed), how the project config resolved (config), the vault calls it
\* issued (vaultCalls; mutations: all but DescribeSecret; deletes: the
\* force-deletes), whether a force-delete failed, whether RotateSecret failed
\* and whether it inserted a row (wrote).  No handler reads the type after the
\* validation: the frame keeps it for requests with rotation, for the
\* properties below.
CreateValidate(c, p, n, type, rot, v, d) ==
    /\ Free(c)
    /\ nextId + Cardinality(Creating) < MaxSecrets
    /\ LET cfg == ProjectAwsConfig(p)
           cfgArn == IF p \in ProjectIds THEN project[p].rotationLambdaArn ELSE NULL
           f == [op |-> "create", pc |-> "unique", projectId |-> p, name |-> n,
                 type |-> type, rot |-> rot, config |-> cfg, cfgArn |-> cfgArn,
                 value |-> v, description |-> d, created |-> FALSE, error |-> NULL,
                 existed |-> \E r \in RowsNamed(n) : r.projectId = p, vaultCalls |-> 0, mutations |-> 0,
                 deletes |-> 0, deleteFailed |-> FALSE, rotationFailed |-> FALSE,
                 wrote |-> FALSE, result |-> NULL]
       IN call' = [call EXCEPT ![c] =
                     IF cfg # "ok" THEN CreateThrown(f, cfg)
                     ELSE IF RotationPrerequisites(type, rot, cfgArn) # "ok"
                     THEN CreateThrown(f, RotationPrerequisites(type, rot, cfgArn))
                     ELSE [f EXCEPT !.type = IF rot THEN type ELSE NULL]]
    /\ UNCHANGED <<project, activeDeployments, bg, secret, vault, nextId, now, target, lambda, cycle>>

\* createSecret without the lookup of the name.
CreateUnique_Unchecked(c) ==
    /\ call[c].op = "create"
    /\ call[c].pc = "unique"
    /\ call' = [call EXCEPT ![c].pc = "describe"]
    /\ UNCHANGED <<project, activeDeployments, bg, secret, vault, nextId, now, target, lambda, cycle>>

\* service.ts:70-74: the name is looked up in the Secret table.
CreateUnique(c) ==
    /\ call[c].op = "create"
    /\ call[c].pc = "unique"
    /\ call' = [call EXCEPT ![c] =
                  IF RowsNamed(call[c].name) # {}
                  THEN CreateThrown(call[c], "Conflict")
                  ELSE [call[c] EXCEPT !.pc = "describe"]]
    /\ UNCHANGED <<project, activeDeployments, bg, secret, vault, nextId, now, target, lambda, cycle>>

\* service.ts:76-90: DescribeSecret.  Answered: the secret exists (Conflict);
\* ResourceNotFoundException: go on; any other error is rethrown.
CreateDescribe(c) ==
    /\ call[c].op = "create"
    /\ call[c].pc = "describe"
    /\ \E o \in VaultOutcomes :
         LET f == [call[c] EXCEPT !.vaultCalls = @ + 1]
         IN call' = [call EXCEPT ![c] =
                       IF o = "failed" THEN CreateThrown(f, "UpstreamFailure")
                       ELSE IF InVault(f.name) THEN CreateThrown(f, "Conflict")
                       ELSE [f EXCEPT !.pc = "remote"]]
    /\ UNCHANGED <<project, activeDeployments, bg, secret, vault, nextId, now, target, lambda, cycle>>

\* service.ts:95-107: CreateSecret.  The vault refuses a name it holds
\* (ResourceExistsException).  A failure here reaches the catch at :149 with
\* awsSecretCreated false and is rethrown as it is.
CreateRemote(c) ==
    /\ call[c].op = "create"
    /\ call[c].pc = "remote"
    /\ \E o \in VaultOutcomes :
         LET f == [call[c] EXCEPT !.vaultCalls = @ + 1, !.mutations = @ + 1]
         IN IF o = "served" /\ ~InVault(f.name)
            THEN /\ vault' = [vault EXCEPT ![f.name] = CreatedSecret(f.value)]
                 /\ call' = [call EXCEPT ![c] =
                               [f EXCEPT !.created = TRUE,
                                         !.pc = IF f.rot THEN "rotation" ELSE "insert"]]
            ELSE /\ call' = [call EXCEPT ![c] =
                               CreateThrown(f, IF o = "served" THEN "ResourceExists"
                                               ELSE "UpstreamFailure")]
                 /\ UNCHANGED vault
    /\ UNCHANGED <<project, activeDeployments, bg, secret, nextId, now, target, lambda, cycle>>

\* service.ts:110-118 and 364-379: RotateSecret with the lambda and the rules.
\* A failure enters the catch at :119.
CreateRotation(c) ==
    /\ call[c].op = "create"
    /\ call[c].pc = "rotation"
    /\ \E o \in VaultOutcomes :
         LET f == [call[c] EXCEPT !.vaultCalls = @ + 1, !.mutations = @ + 1]
         IN IF o = "served" /\ InVault(f.name)
            THEN /\ vault' = [vault EXCEPT ![f.name].rotation = TRUE]
                 /\ call' = [call EXCEPT ![c] = [f EXCEPT !.pc = "insert"]]
            ELSE /\ call' = [call EXCEPT ![c] =
                               [f EXCEPT !.pc = "rollback", !.rotationFailed = TRUE]]
                 /\ UNCHANGED vault
    /\ UNCHANGED <<project, activeDeployments, bg, secret, nextId, now, target, lambda, cycle>>

\* service.ts:119-129: the catch of the rotation error force-deletes the
\* secret and throws BadRequest("Failed to enable rotation").  The delete is
\* awaited outside any try of its own: if it fails, its error is what leaves
\* the catch.  Either error is thrown inside the try of :95 and so reaches the
\* catch at :149.
CreateRotationRollback(c) ==
    /\ call[c].op = "create"
    /\ call[c].pc = "rollback"
    /\ \E o \in VaultOutcomes :
         LET f == [call[c] EXCEPT !.vaultCalls = @ + 1, !.mutations = @ + 1,
                                  !.deletes = @ + 1]
         IN IF o = "served" /\ InVault(f.name)
            THEN /\ vault' = [vault EXCEPT ![f.name] = Absent]
                 /\ call' = [call EXCEPT ![c] =
                               [f EXCEPT !.pc = "catch", !.error = "RotationFailure"]]
            ELSE /\ call' = [call EXCEPT ![c] =
                               [f EXCEPT !.pc = "catch", !.error = "DeleteFailure",
                                         !.deleteFailed = TRUE]]
                 /\ UNCHANGED vault
    /\ UNCHANGED <<project, activeDeployments, bg, secret, nextId, now, target, lambda, cycle>>

\* service.ts:132-148: the row is inserted.  The store enforces the unique
\* name (P2002) and may fail for another reason; both reach the catch at
\* :149, where P2002 skips the rollback.
CreateInsert(c) ==
    /\ call[c].op = "create"
    /\ call[c].pc = "insert"
    /\ \E stored \in BOOLEAN :
         LET f == call[c]
         IN IF ~stored
            THEN /\ call' = [call EXCEPT ![c] =
                               [f EXCEPT !.pc = "catch", !.error = "StoreFailure"]]
                 /\ UNCHANGED <<secret, nextId>>
            ELSE IF RowsNamed(f.name) # {}
            THEN /\ call' = [call EXCEPT ![c] = CreateThrown(f, "P2002")]
                 /\ UNCHANGED <<secret, nextId>>
            ELSE /\ secret' = secret \cup
                       {[id |-> nextId + 1, name |-> f.name, projectId |-> f.projectId,
                         enableRotation |-> f.rot, description |-> f.description,
                         updatedAt |-> now, lastRotatedAt |-> 0]}
                 /\ nextId' = nextId + 1
                 /\ call' = [call EXCEPT ![c] = CreateThrown([f EXCEPT !.wrote = TRUE], "ok")]
    /\ UNCHANGED <<project, activeDeployments, bg, vault, now, target, lambda, cycle>>

\* The catch of :149 without its rollback.
CreateCatch_NoRollback(c) ==
    /\ call[c].op = "create"
    /\ call[c].pc = "catch"
    /\ call' = [call EXCEPT ![c] = CreateThrown(call[c], call[c].error)]
    /\ UNCHANGED <<project, activeDeployments, bg, secret, vault, nextId, now, target, lambda, cycle>>

\* service.ts:149-167: the catch around create, rotation and insert.  With the
\* secret created and an error other than P2002 it force-deletes the secret,
\* swallowing a failure of the delete, and rethrows the error it caught.
CreateCatch(c) ==
    /\ call[c].op = "create"
    /\ call[c].pc = "catch"
    /\ \E o \in VaultOutcomes :
         LET f == [call[c] EXCEPT !.vaultCalls = @ + 1, !.mutations = @ + 1,
                                  !.deletes = @ + 1]
         IN IF o = "served" /\ InVault(f.name)
            THEN /\ vault' = [vault EXCEPT ![f.name] = Absent]
                 /\ call' = [call EXCEPT ![c] = CreateThrown(f, f.error)]
            ELSE /\ call' = [call EXCEPT ![c] =
                               CreateThrown([f EXCEPT !.deleteFailed = TRUE], f.error)]
                 /\ UNCHANGED vault
    /\ UNCHANGED <<project, activeDeployments, bg, secret, nextId, now, target, lambda, cycle>>

\* Requests to create a secret with one of the given names.
createSecretNamed(c, names) ==
    \/ \E p \in AllProjectIds, n \in names, type \in SecretTypes, rot \in BOOLEAN :
         CreateValidate(c, p, n, type, rot, "v1", "d1")
    \/ CreateUnique(c)
    \/ CreateDescribe(c)
    \/ CreateRemote(c)
    \/ CreateRotation(c)
    \/ CreateRotationRollback(c)
    \/ CreateInsert(c)
    \/ CreateCatch(c)

createSecret(c) == createSecretNamed(c, Names)

\* ---- the group-scoped revision of the service (part_003)
\* part_003:570-584.  What getReadySecretGroup throws, or "ok"; the rows of
\* the project table stand for the secret groups.
ReadySecretGroup(p) ==
    IF p \notin ProjectIds THEN "NotFound"
    ELSE IF ~project[p].credentials \/ project[p].rotationLambdaArn = NULL
    THEN "InvalidConfiguration"
    ELSE "ok"

\* part_003:58-71: createSecret of the group-scoped revision resolves the
\* group with getReadySecretGroup and validates the rotation prerequisites;
\* from the uniqueness check on it is the code of the project-scoped one.
CreateValidateGroup(c, p, n, type, rot, v, d) ==
    /\ Free(c)
    /\ nextId + Cardinality(Creating) < MaxSecrets
    /\ LET cfg == ReadySecretGroup(p)
           cfgArn == IF p \in ProjectIds THEN project[p].rotationLambdaArn ELSE NULL
           f == [op |-> "create", pc |-> "unique", projectId |-> p, name |-> n,
                 type |-> type, rot |-> rot, config |-> cfg, cfgArn |-> cfgArn,
                 value |-> v, description |-> d, created |-> FALSE, error |-> NULL,
                 existed |-> \E r \in RowsNamed(n) : r.projectId = p, vaultCalls |-> 0, mutations |-> 0,
                 deletes |-> 0, deleteFailed |-> FALSE, rotationFailed |-> FALSE,
                 wrote |-> FALSE, result |-> NULL]
       IN call' = [call EXCEPT ![c] =
                     IF cfg # "ok" THEN CreateThrown(f, cfg)
                     ELSE IF RotationPrerequisites(type, rot, cfgArn) # "ok"
                     THEN CreateThrown(f, RotationPrerequisites(type, rot, cfgArn))
                     ELSE [f EXCEPT !.type = IF rot THEN type ELSE NULL]]
    /\ UNCHANGED <<project, activeDeployments, bg, secret, vault, nextId, now, target, lambda, cycle>>

createSecretInGroup(c) ==
    \/ \E p \in AllProjectIds, type \in SecretTypes, rot \in BOOLEAN :
         CreateValidateGroup(c, p, "n1", type, rot, "v1", "d1")
    \/ CreateUnique(c)
    \/ CreateDescribe(c)
    \/ CreateRemote(c)
    \/ CreateRotation(c)
    \/ CreateRotationRollback(c)
    \/ CreateInsert(c)
    \/ CreateCatch(c)

\* ------------------------------------------------------------- updateSecret
\* The requests in flight that will still stamp a row with new Date().
Updating == {c \in Callers : call[c].op = "update" /\ call[c].pc # "ret"}

\* service.ts:228-241: the row is read (findUnique by id).
\* v = NULL / d = NULL: the request carries no secretValue / no description.
UpdateFind(c, i, v, d) ==
    /\ Free(c)
    /\ now + Cardinality(Updating) < MaxClock
    /\ LET f == [op |-> "update", pc |-> "config", id |-> i, name |-> NULL,
                 projectId |-> NULL, value |-> v, description |-> d,
                 vaultCalls |-> 0, vaultWritten |-> FALSE, wrote |-> FALSE,
                 result |-> NULL]
       IN call' = [call EXCEPT ![c] =
                     IF RowsWithId(i) = {} THEN Thrown(f, "NotFound")
                     ELSE LET r == CHOOSE r \in RowsWithId(i) : TRUE
                          IN [f EXCEPT !.name = r.name, !.projectId = r.projectId]]
    /\ UNCHANGED <<project, activeDeployments, bg, secret, vault, nextId, now, target, lambda, cycle>>

\* service.ts:239-241, and :245 when no secretValue was given: the project
\* row is read; without a value the handler goes straight to the row update.
UpdateConfig(c) ==
    /\ call[c].op = "update"
    /\ call[c].pc = "config"
    /\ LET f == call[c]
           cfg == ProjectAwsConfig(f.projectId)
       IN call' = [call EXCEPT ![c] =
                     IF cfg # "ok" THEN Thrown(f, cfg)
                     ELSE IF f.value # NULL THEN [f EXCEPT !.pc = "vault"]
                     ELSE [f EXCEPT !.pc = "local"]]
    /\ UNCHANGED <<project, activeDeployments, bg, secret, vault, nextId, now, target, lambda, cycle>>

\* updateSecret going on to the row after a failed vault write.
UpdateVault_Swallow(c) ==
    /\ call[c].op = "update"
    /\ call[c].pc = "vault"
    /\ \E o \in VaultOutcomes :
         LET f == [call[c] EXCEPT !.vaultCalls = @ + 1]
         IN IF o = "served" /\ InVault(f.name)
            THEN /\ vault' = [vault EXCEPT ![f.name] = UpdatedSecret(@, f.value)]
                 /\ call' = [call EXCEPT ![c] =
                               [f EXCEPT !.pc = "local", !.vaultWritten = TRUE]]
            ELSE /\ call' = [call EXCEPT ![c] = [f EXCEPT !.pc = "local"]]
                 /\ UNCHANGED vault
    /\ UNCHANGED <<project, activeDeployments, bg, secret, nextId, now, target, lambda, cycle>>

\* service.ts:243-256: UpdateSecret writes the value in the vault; a failure
\* is wrapped and thrown.
UpdateVault(c) ==
    /\ call[c].op = "update"
    /\ call[c].pc = "vault"
    /\ \E o \in VaultOutcomes :
         LET f == [call[c] EXCEPT !.vaultCalls = @ + 1]
         IN IF o = "served" /\ InVault(f.name)
            THEN /\ vault' = [vault EXCEPT ![f.name] = UpdatedSecret(@, f.value)]
                 /\ call' = [call EXCEPT ![c] =
                               [f EXCEPT !.pc = "local", !.vaultWritten = TRUE]]
            ELSE /\ call' = [call EXCEPT ![c] = Thrown(f, "UpstreamFailure")]
                 /\ UNCHANGED vault
    /\ UNCHANGED <<project, activeDeployments, bg, secret, nextId, now, target, lambda, cycle>>

\* service.ts:258-265: the row gets the description (when given) and
\* updatedAt = new Date().  The store throws when the row is gone.
UpdateLocal(c) ==
    /\ call[c].op = "update"
    /\ call[c].pc = "local"
    /\ LET f == call[c]
       IN IF RowsWithId(f.id) = {}
          THEN /\ call' = [call EXCEPT ![c] = Thrown(f, "StoreFailure")]
               /\ UNCHANGED <<secret, now>>
          ELSE LET r == CHOOSE r \in RowsWithId(f.id) : TRUE
               IN /\ secret' = (secret \ {r}) \cup
                        {[r EXCEPT !.description =
                                     IF f.description # NULL THEN f.description ELSE @,
                                   !.updatedAt = now + 1]}
                  /\ now' = now + 1
                  /\ call' = [call EXCEPT ![c] = Thrown([f EXCEPT !.wrote = TRUE], "ok")]
    /\ UNCHANGED <<project, activeDeployments, bg, vault, nextId, target, lambda, cycle>>

updateSecret(c) ==
    \/ \E i \in 1..MaxSecrets, v \in Values \cup {NULL}, d \in Descriptions \cup {NULL} :
         UpdateFind(c, i, v, d)
    \/ UpdateConfig(c)
    \/ UpdateVault(c)
    \/ UpdateLocal(c)

\* ------------------------------------------------------------- deleteSecret
\* service.ts:271-278: the row is read (findUnique by id).  The frame records
\* how the vault call ended (remote) and whether the row was still there when
\* the store was asked to delete it (rowAtDelete).
DeleteFind(c, i) ==
    /\ Free(c)
    /\ LET f == [op |-> "delete", pc |-> "config", id |-> i, name |-> NULL,
                 projectId |-> NULL, client |-> FALSE, remote |-> "none",
                 vaultCalls |-> 0, rowAtDelete |-> FALSE, result |-> NULL]
       IN call' = [call EXCEPT ![c] =
                     IF RowsWithId(i) = {} THEN [f EXCEPT !.pc = "ret", !.result = "NotFound"]
                     ELSE LET r == CHOOSE r \in RowsWithId(i) : TRUE
                          IN [f EXCEPT !.name = r.name, !.projectId = r.projectId]]
    /\ UNCHANGED <<project, activeDeployments, bg, secret, vault, nextId, now, target, lambda, cycle>>

\* service.ts:283-292: the project config is resolved inside a try; when it
\* throws, client stays null and the vault is not called.
DeleteConfig(c) ==
    /\ call[c].op = "delete"
    /\ call[c].pc = "config"
    /\ call' = [call EXCEPT ![c] =
                  IF ProjectAwsConfig(call[c].projectId) = "ok"
                  THEN [call[c] EXCEPT !.client = TRUE, !.pc = "vault"]
                  ELSE [call[c] EXCEPT !.pc = "local"]]
    /\ UNCHANGED <<project, activeDeployments, bg, secret, vault, nextId, now, target, lambda, cycle>>

\* deleteSecret rethrowing a vault failure other than not-found.
DeleteVault_Rethrow(c) ==
    /\ call[c].op = "delete"
    /\ call[c].pc = "vault"
    /\ \E o \in VaultOutcomes :
         LET f == [call[c] EXCEPT !.vaultCalls = @ + 1, !.pc = "local"]
         IN IF o = "served" /\ InVault(f.name)
            THEN /\ vault' = [vault EXCEPT ![f.name] = Absent]
                 /\ call' = [call EXCEPT ![c] = [f EXCEPT !.remote = "deleted"]]
            ELSE /\ call' = [call EXCEPT ![c] =
                               IF o = "served" THEN [f EXCEPT !.remote = "notFound"]
                               ELSE [f EXCEPT !.remote = "failed", !.pc = "ret",
                                              !.result = "UpstreamFailure"]]
                 /\ UNCHANGED vault
    /\ UNCHANGED <<project, activeDeployments, bg, secret, nextId, now, target, lambda, cycle>>

\* service.ts:293-311: DeleteSecret.  The vault deletes the secret, answers
\* ResourceNotFoundException, or the call fails; every error is caught.
DeleteVault(c) ==
    /\ call[c].op = "delete"
    /\ call[c].pc = "vault"
    /\ \E o \in VaultOutcomes :
         LET f == [call[c] EXCEPT !.vaultCalls = @ + 1, !.pc = "local"]
         IN IF o = "served" /\ InVault(f.name)
            THEN /\ vault' = [vault EXCEPT ![f.name] = Absent]
                 /\ call' = [call EXCEPT ![c] = [f EXCEPT !.remote = "deleted"]]
            ELSE /\ call' = [call EXCEPT ![c] =
                               [f EXCEPT !.remote = IF o = "served" THEN "notFound"
                                                    ELSE "failed"]]
                 /\ UNCHANGED vault
    /\ UNCHANGED <<project, activeDeployments, bg, secret, nextId, now, target, lambda, cycle>>

\* service.ts:314-317: the row is deleted.  The store throws when the row is
\* already gone.
DeleteLocal(c) ==
    /\ call[c].op = "delete"
    /\ call[c].pc = "local"
    /\ LET f == call[c]
       IN IF RowsWithId(f.id) = {}
          THEN /\ call' = [call EXCEPT ![c] = [f EXCEPT !.pc = "ret", !.result = "StoreFailure"]]
               /\ UNCHANGED secret
          ELSE /\ secret' = secret \ RowsWithId(f.id)
               /\ call' = [call EXCEPT ![c] =
                             [f EXCEPT !.pc = "ret", !.result = "ok", !.rowAtDelete = TRUE]]
    /\ UNCHANGED <<project, activeDeployments, bg, vault, nextId, now, target, lambda, cycle>>

deleteSecret(c) ==
    \/ \E i \in 1..MaxSecrets : DeleteFind(c, i)
    \/ DeleteConfig(c)
    \/ DeleteVault(c)
    \/ DeleteLocal(c)

\* ------------------------------------------------------- getSecretWithValue
\* service.ts:188-205: the response of GetSecretValue is decoded.  A vault
\* value here names the SecretString by the object it parses to (every writer
\* stores JSON.stringify of an object); a response without a string or a
\* binary decodes to the empty object.
DecodeSecretValue(value) == IF value = NULL THEN "empty" ELSE value

\* service.ts:173-180: the row is read (findUnique by id).
GetFind(c, i) ==
    /\ Free(c)
    /\ LET f == [op |-> "get", pc |-> "config", id |-> i, name |-> NULL,
                 projectId |-> NULL, remote |-> "none", value |-> NULL,
                 metadata |-> FALSE, result |-> NULL]
       IN call' = [call EXCEPT ![c] =
                     IF RowsWithId(i) = {} THEN [f EXCEPT !.pc = "ret", !.result = "NotFound"]
                     ELSE LET r == CHOOSE r \in RowsWithId(i) : TRUE
                          IN [f EXCEPT !.name = r.name, !.projectId = r.projectId]]
    /\ UNCHANGED <<project, activeDeployments, bg, secret, vault, nextId, now, target, lambda, cycle>>

\* service.ts:183-184: the project config is resolved.
GetConfig(c) ==
    /\ call[c].op = "get"
    /\ call[c].pc = "config"
    /\ LET f == call[c]
           cfg == ProjectAwsConfig(f.projectId)
       IN call' = [call EXCEPT ![c] =
                     IF cfg # "ok" THEN [f EXCEPT !.pc = "ret", !.result = cfg]
                     ELSE [f EXCEPT !.pc = "vault"]]
    /\ UNCHANGED <<project, activeDeployments, bg, secret, vault, nextId, now, target, lambda, cycle>>

\* getSecretWithValue reading the version labelled AWSPENDING.
GetVault_Pending(c) ==
    /\ call[c].op = "get"
    /\ call[c].pc = "vault"
    /\ \E o \in VaultOutcomes :
         LET f == [call[c] EXCEPT !.pc = "ret"]
             held == StageHolders(vault[f.name].versions, "AWSPENDING")
         IN call' = [call EXCEPT ![c] =
                       IF o = "served" /\ InVault(f.name) /\ held # {}
                       THEN [f EXCEPT !.remote = "read", !.metadata = TRUE,
                                      !.value = DecodeSecretValue((CHOOSE v \in held : TRUE).value),
                                      !.result = "ok"]
                       ELSE [f EXCEPT !.remote = "failed", !.result = "UpstreamFailure"]]
    /\ UNCHANGED <<project, activeDeployments, bg, secret, vault, nextId, now, target, lambda, cycle>>

\* getSecretWithValue answering with the row alone when the vault read fails.
GetVault_LocalFallback(c) ==
    /\ call[c].op = "get"
    /\ call[c].pc = "vault"
    /\ \E o \in VaultOutcomes :
         LET f == [call[c] EXCEPT !.pc = "ret"]
         IN call' = [call EXCEPT ![c] =
                       IF o = "served" /\ InVault(f.name)
                       THEN [f EXCEPT !.remote = "read", !.metadata = TRUE,
                                      !.value = DecodeSecretValue(
                                                    CurrentValue(vault[f.name].versions)),
                                      !.result = "ok"]
                       ELSE [f EXCEPT !.remote = "failed", !.metadata = TRUE,
                                      !.result = "ok"]]
    /\ UNCHANGED <<project, activeDeployments, bg, secret, vault, nextId, now, target, lambda, cycle>>

\* service.ts:187-224: GetSecretValue with VersionStage 'AWSCURRENT'.  The
\* decoded value is returned merged with the row (metadata); any error of the
\* read or the decoding is wrapped and thrown, and nothing is returned.
GetVault(c) ==
    /\ call[c].op = "get"
    /\ call[c].pc = "vault"
    /\ \E o \in VaultOutcomes :
         LET f == [call[c] EXCEPT !.pc = "ret"]
         IN call' = [call EXCEPT ![c] =
                       IF o = "served" /\ InVault(f.name)
                       THEN [f EXCEPT !.remote = "read", !.metadata = TRUE,
                                      !.value = DecodeSecretValue(
                                                    CurrentValue(vault[f.name].versions)),
                                      !.result = "ok"]
                       ELSE [f EXCEPT !.remote = "failed", !.result = "UpstreamFailure"]]
    /\ UNCHANGED <<project, activeDeployments, bg, secret, vault, nextId, now, target, lambda, cycle>>

getSecretWithValue(c) ==
    \/ \E i \in 1..MaxSecrets : GetFind(c, i)
    \/ GetConfig(c)
    \/ GetVault(c)

\* ------------------------------------------------------------- rotateSecret
\* The requests in flight that will still stamp a row with new Date().
Rotating == {c \in Callers : call[c].op = "rotate" /\ call[c].pc # "ret"}

\* rotateSecret without the check of the rotation flag.
RotateFind_Unchecked(c, i) ==
    /\ Free(c)
    /\ now + Cardinality(Rotating) < MaxClock
    /\ LET f == [op |-> "rotate", pc |-> "config", id |-> i, name |-> NULL,
                 projectId |-> NULL, found |-> FALSE, enabled |-> FALSE,
                 vaultCalls |-> 0, rotated |-> FALSE, wrote |-> FALSE,
                 result |-> NULL]
       IN call' = [call EXCEPT ![c] =
                     IF RowsWithId(i) = {} THEN [f EXCEPT !.pc = "ret", !.result = "NotFound"]
                     ELSE LET r == CHOOSE r \in RowsWithId(i) : TRUE
                          IN [f EXCEPT !.name = r.name, !.projectId = r.projectId,
                                       !.found = TRUE, !.enabled = r.enableRotation]]
    /\ UNCHANGED <<project, activeDeployments, bg, secret, vault, nextId, now, target, lambda, cycle>>

\* service.ts:323-334: the row is read (findUnique by id); a secret whose
\* enableRotation is false is refused with BadRequest.  The frame records
\* the flag the call met (enabled), the RotateSecret calls it made
\* (vaultCalls), whether one succeeded (rotated) and whether it stamped the
\* row (wrote).
RotateFind(c, i) ==
    /\ Free(c)
    /\ now + Cardinality(Rotating) < MaxClock
    /\ LET f == [op |-> "rotate", pc |-> "config", id |-> i, name |-> NULL,
                 projectId |-> NULL, found |-> FALSE, enabled |-> FALSE,
                 vaultCalls |-> 0, rotated |-> FALSE, wrote |-> FALSE,
                 result |-> NULL]
       IN call' = [call EXCEPT ![c] =
                     IF RowsWithId(i) = {} THEN [f EXCEPT !.pc = "ret", !.result = "NotFound"]
                     ELSE LET r == CHOOSE r \in RowsWithId(i) : TRUE
                              g == [f EXCEPT !.name = r.name, !.projectId = r.projectId,
                                             !.found = TRUE, !.enabled = r.enableRotation]
                          IN IF ~r.enableRotation
                             THEN [g EXCEPT !.pc = "ret", !.result = "RotationDisabled"]
                             ELSE g]
    /\ UNCHANGED <<project, activeDeployments, bg, secret, vault, nextId, now, target, lambda, cycle>>

\* service.ts:336-338: the project config is resolved, outside the try.
RotateConfig(c) ==
    /\ call[c].op = "rotate"
    /\ call[c].pc = "config"
    /\ LET f == call[c]
           cfg == ProjectAwsConfig(f.projectId)
       IN call' = [call EXCEPT ![c] =
                     IF cfg # "ok" THEN [f EXCEPT !.pc = "ret", !.result = cfg]
                     ELSE [f EXCEPT !.pc = "vault"]]
    /\ UNCHANGED <<project, activeDeployments, bg, secret, vault, nextId, now, target, lambda, cycle>>

\* rotateSecret going on to stamp the row after a failed RotateSecret.
RotateVault_StampAnyway(c) ==
    /\ call[c].op = "rotate"
    /\ call[c].pc = "vault"
    /\ \E o \in VaultOutcomes :
         LET f == [call[c] EXCEPT !.vaultCalls = @ + 1, !.pc = "local"]
         IN call' = [call EXCEPT ![c] =
                       IF o = "served" /\ InVault(f.name) /\ vault[f.name].rotation
                       THEN [f EXCEPT !.rotated = TRUE]
                       ELSE f]
    /\ UNCHANGED <<project, activeDeployments, bg, secret, vault, nextId, now, target, lambda, cycle>>

\* service.ts:340-345 and 354-357: RotateSecret for the name, once.  The
\* vault refuses a secret it does not hold or one with no rotation function;
\* every error is wrapped in BadRequest("Failed to rotate Secret") and
\* thrown.  The rotation the vault starts runs later, as the events of the
\* rotation function below.
RotateVault(c) ==
    /\ call[c].op = "rotate"
    /\ call[c].pc = "vault"
    /\ \E o \in VaultOutcomes :
         LET f == [call[c] EXCEPT !.vaultCalls = @ + 1]
         IN call' = [call EXCEPT ![c] =
                       IF o = "served" /\ InVault(f.name) /\ vault[f.name].rotation
                       THEN [f EXCEPT !.pc = "local", !.rotated = TRUE]
                       ELSE [f EXCEPT !.pc = "ret", !.result = "UpstreamFailure"]]
    /\ UNCHANGED <<project, activeDeployments, bg, secret, vault, nextId, now, target, lambda, cycle>>

\* service.ts:347-357: the row gets lastRotatedAt = new Date().  The update
\* is inside the same try: a store error (the row is gone, or the store
\* fails) is wrapped like a vault error.
RotateLocal(c) ==
    /\ call[c].op = "rotate"
    /\ call[c].pc = "local"
    /\ \E stored \in BOOLEAN :
         LET f == call[c]
         IN IF ~stored \/ RowsWithId(f.id) = {}
            THEN /\ call' = [call EXCEPT ![c] =
                               [f EXCEPT !.pc = "ret", !.result = "UpstreamFailure"]]
                 /\ UNCHANGED <<secret, now>>
            ELSE LET r == CHOOSE r \in RowsWithId(f.id) : TRUE
                 IN /\ secret' = (secret \ {r}) \cup {[r EXCEPT !.lastRotatedAt = now + 1]}
                    /\ now' = now + 1
                    /\ call' = [call EXCEPT ![c] =
                                  [f EXCEPT !.pc = "ret", !.wrote = TRUE, !.result = "ok"]]
    /\ UNCHANGED <<project, activeDeployments, bg, vault, nextId, target, lambda, cycle>>

rotateSecret(c) ==
    \/ \E i \in 1..MaxSecrets : RotateFind(c, i)
    \/ RotateConfig(c)
    \/ RotateVault(c)
    \/ RotateLocal(c)

\* ------------------------------------------------------------------ rotation
\* The rotation function (infrastructure/lambda): the vault sends it a
\* RotationEvent (Step, SecretId, ClientRequestToken); its handler reads the
\* versions the step needs and calls the step of the strategy registered for
\* the secret's type.  The secret rotated here is the one named "n1".
Rotated == "n1"
Tokens == {1, 2}
Invokers == {"l1"}
Steps == <<"createSecret", "setSecret", "testSecret", "finishSecret">>

\* What GetRandomPassword answers.
Randoms == {"r1", "r2"}
\* The access key ids IAM issues, in the order it issues them.
KeyIds == <<"k1", "k2", "k3">>

\* The strategy registered for a secret type.
StrategyOf(type) ==
    IF type \in {"RDS_CREDENTIALS", "DOCUMENTDB_CREDENTIALS"} THEN "database"
    ELSE IF type = "AWS_API_KEY" THEN "apiKey"
    ELSE "generic"

\* No rotated secret: the state of the target outside the rotation
\* specifications.
NoTarget == [type |-> NULL, password |-> NULL, keys |-> {}, issued |-> 0]

NoVersion == <<"none", 0>>

IdleInvocation ==
    [step |-> NULL, token |-> 0, pc |-> "idle", currentId |-> NoVersion,
     currentValue |-> NULL, pendingValue |-> NULL, fresh |-> NULL,
     again |-> FALSE, harm |-> FALSE, usable |-> FALSE, result |-> NULL]

\* What the steps have done for a token: a createSecret step stored a version
\* under it (stored) with a value (first); a createSecret step issued an
\* access key after that (reissued); setSecret changed the target's password
\* to its value, or had nothing to change (applied); testSecret succeeded
\* (passed), and with a value the target accepted (tested); finishSecret
\* succeeded (finished).
NoCycle ==
    [stored |-> FALSE, first |-> NULL, reissued |-> FALSE, applied |-> FALSE,
     passed |-> FALSE, tested |-> FALSE, finished |-> FALSE]

\* The vault sends a step of a token after the step before it succeeded.
InOrder(step, c) ==
    CASE step = "createSecret" -> TRUE
      [] step = "setSecret" -> c.stored
      [] step = "testSecret" -> c.applied
      [] OTHER -> c.passed

TokenVersions(t) == {v \in vault[Rotated].versions : v.id = <<"tok", t>>}

\* The step has returned (result "ok") or thrown ("failed"); the frame keeps
\* what the properties below read and drops its working values.
StepEnds(f, result) ==
    [f EXCEPT !.pc = "ret", !.result = result, !.currentId = NoVersion,
              !.currentValue = NULL, !.pendingValue = NULL, !.fresh = NULL]

\* The target accepts a database password / an access key.
PasswordAccepted(value) == value # NULL /\ target.password = value
KeyAccepted(value) == \E k \in target.keys : k.id = value /\ k.active

\* aws-api-key.ts:66: the cleanup runs when the payload has an accessKeyId
\* and a username.  Payloads written by createSecret have both (:21-26);
\* "v0" and "v2" stand for payloads the user stored with the key pair alone,
\* "v1" for one stored with the username as well.
HasKeyAndUsername(value) == value \notin {NULL, "v0", "v2"}

\* ---- the vault calls of the strategies
\* PutSecretValue attaching AWSPENDING without taking it off the version
\* that holds it.
PutSecretValue_KeepLabels(e, id, value) ==
    IF \E v \in e.versions : v.id = id
    THEN [ok |-> \E v \in e.versions : v.id = id /\ v.value = value, entry |-> e]
    ELSE [ok |-> TRUE,
          entry |-> [e EXCEPT !.versions =
                       @ \cup {[id |-> id, value |-> value, stages |-> {"AWSPENDING"}]}]]

\* PutSecretValue with ClientRequestToken id and VersionStages
\* ['AWSPENDING'].  A version stored under the token already: the request is
\* ignored when the value is the same and refused when it differs.
\* Otherwise the version is added and AWSPENDING moves to it.
PutSecretValue(e, id, value) ==
    IF \E v \in e.versions : v.id = id
    THEN [ok |-> \E v \in e.versions : v.id = id /\ v.value = value, entry |-> e]
    ELSE [ok |-> TRUE,
          entry |-> [e EXCEPT !.versions =
                       WithStage(@ \cup {[id |-> id, value |-> value, stages |-> {}]},
                                 "AWSPENDING", id)]]

\* UpdateSecretVersionStage moving AWSCURRENT to moveTo and removing it from
\* removeFrom, in one request.  It is refused when moveTo is no version or
\* removeFrom is not the version that holds the label; sameOk: whether the
\* vault accepts a request whose two ids are the same version.  AWSPREVIOUS
\* follows to the version the label left.
UpdateSecretVersionStage(e, moveTo, removeFrom, sameOk) ==
    LET holders == StageHolders(e.versions, "AWSCURRENT")
        accepted == /\ \E v \in e.versions : v.id = moveTo
                    /\ \A h \in holders : h.id = removeFrom
                    /\ moveTo = removeFrom => sameOk
    IN IF ~accepted THEN [ok |-> FALSE, entry |-> e]
       ELSE IF moveTo = removeFrom THEN [ok |-> TRUE, entry |-> e]
       ELSE [ok |-> TRUE,
             entry |-> [e EXCEPT
                 !.versions = WithStage(WithStage(@, "AWSCURRENT", moveTo),
                                        "AWSPREVIOUS", removeFrom),
                 !.value = (CHOOSE v \in e.versions : v.id = moveTo).value]]

\* ---- the handler
\* A RotationEvent arrives and the handler reads what the step takes: the
\* AWSCURRENT version (currentSecret, currentDict) and, for setSecret and
\* testSecret, the version stored under the token with AWSPENDING
\* (pendingDict).  ordered: the vault runs the four steps of a token in order,
\* each after the one before it succeeded, and may send any of them again.
\* The steps of the strategies that return at once (setSecret of the key and
\* generic strategies, testSecret of the generic one) end here.
RotationEvent(l, step, t, ordered) ==
    /\ lambda[l].pc = "idle"
    /\ InVault(Rotated)
    /\ ordered => InOrder(step, cycle[t])
    /\ LET versions == vault[Rotated].versions
           current == CHOOSE v \in StageHolders(versions, "AWSCURRENT") : TRUE
           pending == {v \in TokenVersions(t) : "AWSPENDING" \in v.stages}
           kind == StrategyOf(target.type)
           f == [IdleInvocation EXCEPT
                   !.step = step, !.token = t,
                   !.currentId = current.id, !.currentValue = current.value]
       IN IF step \in {"setSecret", "testSecret"} /\ pending = {}
          THEN /\ lambda' = [lambda EXCEPT ![l] = StepEnds(f, "failed")]
               /\ UNCHANGED cycle
          ELSE LET g == IF step \in {"setSecret", "testSecret"}
                        THEN [f EXCEPT !.pendingValue =
                                         (CHOOSE v \in pending : TRUE).value]
                        ELSE f
               IN CASE step = "createSecret" ->
                         /\ lambda' = [lambda EXCEPT ![l] =
                              [g EXCEPT !.pc = IF kind = "apiKey" THEN "identity"
                                               ELSE "random",
                                        !.again = cycle[t].stored]]
                         /\ UNCHANGED cycle
                    [] step = "setSecret" ->
                         IF kind = "database"
                         THEN /\ lambda' = [lambda EXCEPT ![l] =
                                   [g EXCEPT !.pc = "connect",
                                             !.again = /\ cycle[t].applied
                                                       /\ PasswordAccepted(g.pendingValue)]]
                              /\ UNCHANGED cycle
                         ELSE /\ lambda' = [lambda EXCEPT ![l] = StepEnds(g, "ok")]
                              /\ cycle' = [cycle EXCEPT ![t].applied = TRUE]
                    [] step = "testSecret" ->
                         IF kind = "generic"
                         THEN /\ lambda' = [lambda EXCEPT ![l] =
                                   StepEnds([g EXCEPT !.usable = TRUE], "ok")]
                              /\ cycle' = [cycle EXCEPT ![t].passed = TRUE,
                                                          ![t].tested = TRUE]
                         ELSE /\ lambda' = [lambda EXCEPT ![l] = [g EXCEPT !.pc = "test"]]
                              /\ UNCHANGED cycle
                    [] OTHER ->
                         /\ lambda' = [lambda EXCEPT ![l] =
                              [g EXCEPT !.pc = "move",
                                        !.again = current.id = <<"tok", t>>]]
                         /\ UNCHANGED cycle
    /\ UNCHANGED <<project, activeDeployments, call, bg, secret, vault, nextId, now, target>>

\* ---- createSecret
\* postgres.ts:11-16, documentdb.ts:11-18, part_005:30-37, part_004:10-11:
\* GetRandomPassword answers and the new payload is the current one with the
\* password (value) replaced.
CreateRandom(l) ==
    /\ lambda[l].pc = "random"
    /\ \E r \in Randoms :
         lambda' = [lambda EXCEPT ![l].pc = "put", ![l].fresh = r]
    /\ UNCHANGED <<project, activeDeployments, call, bg, secret, vault, nextId, now, target, cycle>>

\* aws-api-key.ts:8-17: GetCallerIdentity with the current key names the
\* user; it fails when IAM does not accept the key.
CreateIdentity(l) ==
    /\ lambda[l].pc = "identity"
    /\ lambda' = [lambda EXCEPT ![l] =
                    IF KeyAccepted(lambda[l].currentValue)
                    THEN [lambda[l] EXCEPT !.pc = "issue"]
                    ELSE StepEnds(lambda[l], "failed")]
    /\ UNCHANGED <<project, activeDeployments, call, bg, secret, vault, nextId, now, target, cycle>>

\* aws-api-key.ts:20-26: CreateAccessKey issues a new key for the user.  IAM
\* refuses when the user already has two keys.
CreateAccessKey(l) ==
    /\ lambda[l].pc = "issue"
    /\ target.issued < Len(KeyIds)
    /\ LET f == lambda[l]
           key == KeyIds[target.issued + 1]
       IN IF Cardinality(target.keys) < 2
          THEN /\ target' = [target EXCEPT !.keys = @ \cup {[id |-> key, active |-> TRUE]},
                                           !.issued = @ + 1]
               /\ lambda' = [lambda EXCEPT ![l] = [f EXCEPT !.pc = "put", !.fresh = key]]
               /\ cycle' = [cycle EXCEPT ![f.token].reissued = @ \/ cycle[f.token].stored]
          ELSE /\ lambda' = [lambda EXCEPT ![l] = StepEnds(f, "failed")]
               /\ UNCHANGED <<target, cycle>>
    /\ UNCHANGED <<project, activeDeployments, call, bg, secret, vault, nextId, now>>

\* postgres.ts:18-23, documentdb.ts:20-27, part_005:39-46, part_004:13-18,
\* aws-api-key.ts:28-35: the new payload is stored under the token with
\* AWSPENDING.
CreatePut(l) ==
    /\ lambda[l].pc = "put"
    /\ LET f == lambda[l]
           put == PutSecretValue(vault[Rotated], <<"tok", f.token>>, f.fresh)
       IN IF InVault(Rotated) /\ put.ok
          THEN /\ vault' = [vault EXCEPT ![Rotated] = put.entry]
               /\ lambda' = [lambda EXCEPT ![l] = StepEnds(f, "ok")]
               /\ cycle' = [cycle EXCEPT
                    ![f.token].stored = TRUE,
                    ![f.token].first = IF cycle[f.token].stored THEN @ ELSE f.fresh]
          ELSE /\ lambda' = [lambda EXCEPT ![l] = StepEnds(f, "failed")]
               /\ UNCHANGED <<vault, cycle>>
    /\ UNCHANGED <<project, activeDeployments, call, bg, secret, nextId, now, target>>

\* ---- setSecret
\* postgres.ts:27-35, documentdb.ts:31-37, part_005:50-56: the strategy logs
\* in to the database with the user and password of the current payload.
SetConnect(l) ==
    /\ lambda[l].pc = "connect"
    /\ lambda' = [lambda EXCEPT ![l] =
                    IF PasswordAccepted(lambda[l].currentValue)
                    THEN [lambda[l] EXCEPT !.pc = "alter"]
                    ELSE StepEnds(lambda[l], "failed")]
    /\ UNCHANGED <<project, activeDeployments, call, bg, secret, vault, nextId, now, target, cycle>>

\* postgres.ts:36-37, documentdb.ts:38-43, part_005:58-59: ALTER USER /
\* updateUser sets the password of the pending payload.  harm: a repeated
\* setSecret changed the password.
SetAlter(l) ==
    /\ lambda[l].pc = "alter"
    /\ LET f == lambda[l]
       IN /\ target' = [target EXCEPT !.password = f.pendingValue]
          /\ lambda' = [lambda EXCEPT ![l] =
                          StepEnds([f EXCEPT !.harm = f.again /\ ~PasswordAccepted(f.pendingValue)],
                                   "ok")]
          /\ cycle' = [cycle EXCEPT ![f.token].applied = TRUE]
    /\ UNCHANGED <<project, activeDeployments, call, bg, secret, vault, nextId, now>>

\* ---- testSecret
\* testSecret succeeding whatever the target answers.
TestSecret_Unchecked(l) ==
    /\ lambda[l].pc = "test"
    /\ LET f == lambda[l]
           usable == IF StrategyOf(target.type) = "database"
                     THEN PasswordAccepted(f.pendingValue)
                     ELSE KeyAccepted(f.pendingValue)
       IN /\ lambda' = [lambda EXCEPT ![l] = StepEnds([f EXCEPT !.usable = usable], "ok")]
          /\ cycle' = [cycle EXCEPT ![f.token].passed = TRUE,
                                     ![f.token].tested = @ \/ usable]
    /\ UNCHANGED <<project, activeDeployments, call, bg, secret, vault, nextId, now, target>>

\* postgres.ts:40-52, documentdb.ts:46-52, part_005:62-72: log in with the
\* pending payload and run a trivial query; aws-api-key.ts:43-51:
\* GetCallerIdentity with the pending key.  The step throws when the target
\* refuses the credential.
TestSecret(l) ==
    /\ lambda[l].pc = "test"
    /\ LET f == lambda[l]
           usable == IF StrategyOf(target.type) = "database"
                     THEN PasswordAccepted(f.pendingValue)
                     ELSE KeyAccepted(f.pendingValue)
       IN IF usable
          THEN /\ lambda' = [lambda EXCEPT ![l] = StepEnds([f EXCEPT !.usable = TRUE], "ok")]
               /\ cycle' = [cycle EXCEPT ![f.token].passed = TRUE,
                                          ![f.token].tested = TRUE]
          ELSE /\ lambda' = [lambda EXCEPT ![l] = StepEnds(f, "failed")]
               /\ UNCHANGED cycle
    /\ UNCHANGED <<project, activeDeployments, call, bg, secret, vault, nextId, now, target>>

\* ---- finishSecret
\* finishSecret catching the error of the stage move.
FinishMove_Swallow(l) ==
    /\ lambda[l].pc = "move"
    /\ \E sameOk \in BOOLEAN :
         LET f == lambda[l]
             move == UpdateSecretVersionStage(vault[Rotated], <<"tok", f.token>>,
                                              f.currentId, sameOk)
             done == InVault(Rotated) /\ move.ok
             g == [f EXCEPT !.harm = f.again /\ done /\ move.entry # vault[Rotated]]
         IN /\ vault' = [vault EXCEPT ![Rotated] = IF done THEN move.entry ELSE @]
            /\ cycle' = [cycle EXCEPT ![f.token].finished = TRUE]
            /\ lambda' = [lambda EXCEPT ![l] =
                 IF done /\ StrategyOf(target.type) = "apiKey"
                         /\ HasKeyAndUsername(f.currentValue)
                 THEN [g EXCEPT !.pc = "deactivate"]
                 ELSE StepEnds(g, "ok")]
    /\ UNCHANGED <<project, activeDeployments, call, bg, secret, nextId, now, target>>

\* finishSecret moving the label in two requests: off the current version,
\* then on to the version of the token.
FinishMove_TwoWrites(l) ==
    /\ lambda[l].pc \in {"move", "move2"}
    /\ LET f == lambda[l]
           e == vault[Rotated]
       IN IF f.pc = "move"
          THEN /\ vault' = [vault EXCEPT ![Rotated].versions =
                              {[v EXCEPT !.stages = IF v.id = f.currentId
                                                    THEN @ \ {"AWSCURRENT"} ELSE @] :
                                  v \in e.versions}]
               /\ lambda' = [lambda EXCEPT ![l].pc = "move2"]
               /\ UNCHANGED cycle
          ELSE LET move == UpdateSecretVersionStage(e, <<"tok", f.token>>,
                                                    f.currentId, FALSE)
               IN IF move.ok
                  THEN /\ vault' = [vault EXCEPT ![Rotated] = move.entry]
                       /\ cycle' = [cycle EXCEPT ![f.token].finished = TRUE]
                       /\ lambda' = [lambda EXCEPT ![l] = StepEnds(f, "ok")]
                  ELSE /\ lambda' = [lambda EXCEPT ![l] = StepEnds(f, "failed")]
                       /\ UNCHANGED <<vault, cycle>>
    /\ UNCHANGED <<project, activeDeployments, call, bg, secret, nextId, now, target>>

\* postgres.ts:54-61, documentdb.ts:54-63, part_005:74-83, part_004:31-38,
\* aws-api-key.ts:53-66: one UpdateSecretVersionStage request moves
\* AWSCURRENT to the version of the token, removing it from the version the
\* handler read as current.  A refusal is thrown.  The key strategy goes on
\* to clean up the key of currentSecret when that payload has an accessKeyId
\* and a username.  harm: a repeated finishSecret changed a stage.
FinishMove(l) ==
    /\ lambda[l].pc = "move"
    /\ \E sameOk \in BOOLEAN :
         LET f == lambda[l]
             move == UpdateSecretVersionStage(vault[Rotated], <<"tok", f.token>>,
                                              f.currentId, sameOk)
             g == [f EXCEPT !.harm = f.again /\ move.entry # vault[Rotated]]
         IN IF InVault(Rotated) /\ move.ok
            THEN /\ vault' = [vault EXCEPT ![Rotated] = move.entry]
                 /\ cycle' = [cycle EXCEPT ![f.token].finished = TRUE]
                 /\ lambda' = [lambda EXCEPT ![l] =
                      IF StrategyOf(target.type) = "apiKey"
                         /\ HasKeyAndUsername(f.currentValue)
                      THEN [g EXCEPT !.pc = "deactivate"]
                      ELSE StepEnds(g, "ok")]
            ELSE /\ lambda' = [lambda EXCEPT ![l] = StepEnds(f, "failed")]
                 /\ UNCHANGED <<vault, cycle>>
    /\ UNCHANGED <<project, activeDeployments, call, bg, secret, nextId, now, target>>

\* aws-api-key.ts:67-75 and 84-86: UpdateAccessKey sets the key of
\* currentSecret Inactive.  IAM may fail or not know the key: the error is
\* caught and the step returns.  harm: the key is the one the AWSCURRENT
\* version holds.
FinishDeactivate(l) ==
    /\ lambda[l].pc = "deactivate"
    /\ \E o \in VaultOutcomes :
         LET f == lambda[l]
             key == f.currentValue
             live == key = CurrentValue(vault[Rotated].versions)
         IN IF o = "served" /\ \E k \in target.keys : k.id = key
            THEN /\ target' = [target EXCEPT !.keys =
                                 {[k EXCEPT !.active = @ /\ k.id # key] : k \in @}]
                 /\ lambda' = [lambda EXCEPT ![l] =
                                 [f EXCEPT !.pc = "deleteKey", !.harm = @ \/ live]]
            ELSE /\ lambda' = [lambda EXCEPT ![l] = StepEnds(f, "ok")]
                 /\ UNCHANGED target
    /\ UNCHANGED <<project, activeDeployments, call, bg, secret, vault, nextId, now, cycle>>

\* aws-api-key.ts:77-86: DeleteAccessKey deletes it; an error is caught.
FinishDeleteKey(l) ==
    /\ lambda[l].pc = "deleteKey"
    /\ \E o \in VaultOutcomes :
         LET f == lambda[l]
             key == f.currentValue
         IN /\ target' = [target EXCEPT !.keys =
                            IF o = "served" THEN {k \in @ : k.id # key} ELSE @]
            /\ lambda' = [lambda EXCEPT ![l] = StepEnds(f, "ok")]
    /\ UNCHANGED <<project, activeDeployments, call, bg, secret, vault, nextId, now, cycle>>

\* The invocation is over; the function can be invoked again.
LambdaReturn(l) ==
    /\ lambda[l].pc = "ret"
    /\ lambda' = [lambda EXCEPT ![l] = IdleInvocation]
    /\ UNCHANGED <<project, activeDeployments, call, bg, secret, vault, nextId, now, target, cycle>>

\* The rotation function serving the events sent to it.
Rotation(l, ordered) ==
    \/ \E i \in 1..Len(Steps), t \in Tokens : RotationEvent(l, Steps[i], t, ordered)
    \/ CreateRandom(l)
    \/ CreateIdentity(l)
    \/ CreateAccessKey(l)
    \/ CreatePut(l)
    \/ SetConnect(l)
    \/ SetAlter(l)
    \/ TestSecret(l)
    \/ FinishMove(l)
    \/ FinishDeactivate(l)
    \/ FinishDeleteKey(l)
    \/ LambdaReturn(l)

\* Requests to write the value "v2" to the rotated secret (row 1).
updateSecretValue(c) ==
    \/ UpdateFind(c, 1, "v2", NULL)
    \/ UpdateConfig(c)
    \/ UpdateVault(c)
    \/ UpdateLocal(c)

\* ------------------------------------------------------------- environment
\* The project's settings are edited outside this service: the vault
\* credentials are entered or removed.
ProjectSettings(p) ==
    /\ project' = [project EXCEPT ![p].credentials = ~@]
    /\ UNCHANGED <<activeDeployments, call, bg, secret, vault, nextId, now, target, lambda, cycle>>

\* The credential is changed at the target outside the rotation: the
\* database password is set to one no version holds, or the user's keys are
\* all made inactive.
TargetChanged ==
    /\ target.type # NULL
    /\ target' = [target EXCEPT
                     !.password = IF @ = NULL THEN @ ELSE "ext",
                     !.keys = {[k EXCEPT !.active = FALSE] : k \in @}]
    /\ target' # target
    /\ UNCHANGED <<project, activeDeployments, call, bg, secret, vault, nextId, now, lambda, cycle>>

\* --------------------------------------------------------------- the service
ProjectRows ==
    [credentials : BOOLEAN, rotationLambdaArn : {NULL},
     deploymentStatus : {"IDLE"}, deploymentMessage : {NULL}]

InitDeploy ==
    /\ project \in [ProjectIds -> ProjectRows]
    /\ activeDeployments = {}
    /\ call = [c \in Callers |-> IdleCall]
    /\ bg = [c \in Callers |-> NoTask]
    /\ secret = {}
    /\ vault = [n \in Names |-> Absent]
    /\ nextId = 0
    /\ now = 0
    /\ target = NoTarget
    /\ lambda = [l \in Invokers |-> IdleInvocation]
    /\ cycle = [t \in Tokens |-> NoCycle]

NextDeploy ==
    \E c \in Callers :
        \/ deployRotationLambda(c)
        \/ removeRotationLambda(c)
        \/ Background(c)
        \/ Return(c)

SpecDeploy == InitDeploy /\ [][NextDeploy]_vars

\* What a handler does after the await it is suspended at: the store answers
\* and the handler runs on.
Resumed(c) ==
    \/ TransitionFind(c, "deploy")
    \/ TransitionAccept(c, "deploy", "DEPLOYING")
    \/ TransitionFind(c, "remove")
    \/ TransitionAccept(c, "remove", "REMOVING")

\* The deployment state machine when every awaited call (store, tool)
\* completes: a suspended handler or background task is eventually resumed.
SpecDeployFair ==
    /\ SpecDeploy
    /\ \A c \in Callers : WF_vars(Resumed(c)) /\ WF_vars(Background(c))

\* The secret lifecycle, on a project whose settings were made beforehand.
Init ==
    /\ project \in [ProjectIds ->
                     [credentials : BOOLEAN, rotationLambdaArn : {NULL, "arnA"},
                      deploymentStatus : {"IDLE"}, deploymentMessage : {NULL}]]
    /\ activeDeployments = {}
    /\ call = [c \in Callers |-> IdleCall]
    /\ bg = [c \in Callers |-> NoTask]
    /\ secret = {}
    /\ vault = [n \in Names |-> Absent]
    /\ nextId = 0
    /\ now = 0
    /\ target = NoTarget
    /\ lambda = [l \in Invokers |-> IdleInvocation]
    /\ cycle = [t \in Tokens |-> NoCycle]

Next ==
    \E c \in Callers :
        \/ createSecret(c)
        \/ Return(c)

Spec == Init /\ [][Next]_vars

NextUpdate ==
    \E c \in Callers :
        \/ createSecretNamed(c, {"n1"})
        \/ updateSecret(c)
        \/ Return(c)

SpecUpdate == Init /\ [][NextUpdate]_vars

NextDelete ==
    \/ \E c \in Callers :
          \/ createSecretNamed(c, {"n1"})
          \/ deleteSecret(c)
          \/ Return(c)
    \/ \E p \in ProjectIds : ProjectSettings(p)

SpecDelete == Init /\ [][NextDelete]_vars

\* Secrets are created through the group-scoped revision.
NextGroup ==
    \E c \in Callers :
        \/ createSecretInGroup(c)
        \/ Return(c)

SpecGroup == Init /\ [][NextGroup]_vars

\* Secrets are created and rotated on request.
NextRotate ==
    \E c \in Callers :
        \/ createSecretNamed(c, {"n1"})
        \/ rotateSecret(c)
        \/ Return(c)

SpecRotate == Init /\ [][NextRotate]_vars

\* Secrets and deployment together: one caller creates and deletes secrets
\* while the other deploys and removes the rotation lambda.
NextAll ==
    \/ createSecretNamed("c1", {"n1"})
    \/ deleteSecret("c1")
    \/ deployRotationLambda("c2")
    \/ removeRotationLambda("c2")
    \/ Background("c2")
    \/ \E c \in Callers : Return(c)

SpecAll == InitDeploy /\ [][NextAll]_vars

\* The payloads a rotated secret is created with: "v1", and for an access
\* key also "v0", the key pair without a username.
FirstPayloads == {"v1", "v0"}

\* Rotation of a secret of each type, created with rotation enabled on a
\* project with credentials and a deployed function; the target holds the
\* credential the secret was created with.
InitRotation ==
    /\ project = [p \in ProjectIds |->
                    [credentials |-> TRUE, rotationLambdaArn |-> "arnA",
                     deploymentStatus |-> "DEPLOYED",
                     deploymentMessage |-> "Deployment successful"]]
    /\ activeDeployments = {}
    /\ call = [c \in Callers |-> IdleCall]
    /\ bg = [c \in Callers |-> NoTask]
    /\ secret = {[id |-> 1, name |-> Rotated, projectId |-> "p1", enableRotation |-> TRUE,
                  description |-> "d1", updatedAt |-> 1, lastRotatedAt |-> 0]}
    /\ nextId = 1
    /\ now = 1
    /\ \E type \in SecretTypes, first \in FirstPayloads :
         /\ StrategyOf(type) # "apiKey" => first = "v1"
         /\ vault = [n \in Names |->
                       IF n = Rotated THEN [CreatedSecret(first) EXCEPT !.rotation = TRUE]
                       ELSE Absent]
         /\ target = [type |-> type,
                      password |-> IF StrategyOf(type) = "database" THEN first ELSE NULL,
                      keys |-> IF StrategyOf(type) = "apiKey"
                               THEN {[id |-> first, active |-> TRUE]} ELSE {},
                      issued |-> 0]
    /\ lambda = [l \in Invokers |-> IdleInvocation]
    /\ cycle = [t \in Tokens |-> NoCycle]

\* Rotation events in any order, next to updateSecret requests.
NextRotation ==
    \/ \E l \in Invokers : Rotation(l, FALSE)
    \/ updateSecretValue("c1")
    \/ Return("c1")

SpecRotation == InitRotation /\ [][NextRotation]_vars

\* Rotation events in the order of the vault's rotation cycle, next to
\* requests that write and read the value.
NextCycle ==
    \/ \E l \in Invokers : Rotation(l, TRUE)
    \/ updateSecretValue("c1")
    \/ getSecretWithValue("c1")
    \/ Return("c1")
    \/ TargetChanged

SpecCycle == InitRotation /\ [][NextCycle]_vars

\* ---- the payloads of the strategies, key by key
\* The members a payload may have, and the value that stands for a member
\* the object does not have.
PayloadKeys == {"username", "password", "accessKeyId", "secretAccessKey", "value", "host"}
Undefined == "undefined"
Dicts == [PayloadKeys -> {"a", Undefined}]

\* documentdb.ts:23, part_004:16, aws-api-key.ts:32: JSON.stringify writes the
\* members that are defined; the text is the set of its key/value pairs.
Stringify(dict) ==
    {<<k, dict[k]>> : k \in {x \in PayloadKeys : dict[x] # Undefined}}

\* aws-api-key.ts:65: JSON.parse of a SecretString.
ParseSecretString(text) ==
    [k \in PayloadKeys |->
        IF \E m \in text : m[1] = k THEN (CHOOSE m \in text : m[1] = k)[2]
        ELSE Undefined]

\* A new payload built from the fresh password alone.
DatabaseNewDict_Fresh(currentDict, password) ==
    [k \in PayloadKeys |-> IF k = "password" THEN password ELSE Undefined]

\* documentdb.ts:18 (postgres.ts:16, part_005:37): {...currentDict, password}.
DatabaseNewDict(currentDict, password) ==
    [currentDict EXCEPT !["password"] = password]

\* part_004:11: {...currentDict, value}.
GenericNewDict(currentDict, value) ==
    [currentDict EXCEPT !["value"] = value]

\* aws-api-key.ts:21-26: {...currentDict, accessKeyId, secretAccessKey, username}.
AwsApiKeyNewDict(currentDict, accessKeyId, secretAccessKey, username) ==
    [currentDict EXCEPT !["accessKeyId"] = accessKeyId,
                        !["secretAccessKey"] = secretAccessKey,
                        !["username"] = username]

\* The strategy stores newDict under the token with AWSPENDING; a refused
\* PutSecretValue throws and the step has stored nothing.
StorePending(t, newDict) ==
    LET put == PutSecretValue(vault[Rotated], <<"tok", t>>, Stringify(newDict))
    IN /\ put.ok
       /\ vault' = [vault EXCEPT ![Rotated] = put.entry]
       /\ UNCHANGED <<project, activeDeployments, call, bg, secret, nextId, now,
                      target, lambda, cycle>>

\* documentdb.ts:10-28 (postgres.ts:9-24, part_005:29-46): createSecret of the
\* database strategies, given the parsed AWSCURRENT payload.
DocumentDbCreateSecret(t) ==
    /\ StrategyOf(target.type) = "database"
    /\ \E password \in Randoms :
         StorePending(t, DatabaseNewDict(
                             ParseSecretString(CurrentValue(vault[Rotated].versions)),
                             password))

\* part_004:9-19: createSecret of the generic strategy.
GenericCreateSecret(t) ==
    /\ StrategyOf(target.type) = "generic"
    /\ \E value \in Randoms :
         StorePending(t, GenericNewDict(
                             ParseSecretString(CurrentValue(vault[Rotated].versions)),
                             value))

\* aws-api-key.ts:7-35: createSecret of the key strategy; the username is the
\* one GetCallerIdentity answers, the key pair the one CreateAccessKey issues.
AwsApiKeyCreateSecret(t) ==
    /\ StrategyOf(target.type) = "apiKey"
    /\ \E i \in 2..Len(KeyIds), username \in {"a", "u1"} :
         StorePending(t, AwsApiKeyNewDict(
                             ParseSecretString(CurrentValue(vault[Rotated].versions)),
                             KeyIds[i], "s1", username))

\* A rotated secret of any type whose AWSCURRENT payload is any object over
\* PayloadKeys.
InitPayload ==
    /\ project = [p \in ProjectIds |->
                    [credentials |-> TRUE, rotationLambdaArn |-> "arnA",
                     deploymentStatus |-> "DEPLOYED",
                     deploymentMessage |-> "Deployment successful"]]
    /\ activeDeployments = {}
    /\ call = [c \in Callers |-> IdleCall]
    /\ bg = [c \in Callers |-> NoTask]
    /\ secret = {[id |-> 1, name |-> Rotated, projectId |-> "p1", enableRotation |-> TRUE,
                  description |-> "d1", updatedAt |-> 1, lastRotatedAt |-> 0]}
    /\ nextId = 1
    /\ now = 1
    /\ \E type \in SecretTypes, dict \in Dicts :
         /\ vault = [n \in Names |->
                       IF n = Rotated
                       THEN [CreatedSecret(Stringify(dict)) EXCEPT !.rotation = TRUE]
                       ELSE Absent]
         /\ target = [NoTarget EXCEPT !.type = type]
    /\ lambda = [l \in Invokers |-> IdleInvocation]
    /\ cycle = [t \in Tokens |-> NoCycle]

\* createSecret of the strategies on any payload.
NextPayload ==
    \E t \in Tokens :
        \/ DocumentDbCreateSecret(t)
        \/ GenericCreateSecret(t)
        \/ AwsApiKeyCreateSecret(t)

SpecPayload == InitPayload /\ [][NextPayload]_vars

\* ------------------------------------------------------------------ properties
CreateReturned(c) == call[c].op = "create" /\ call[c].pc = "ret"
UpdateReturned(c) == call[c].op = "update" /\ call[c].pc = "ret"
DeleteReturned(c) == call[c].op = "delete" /\ call[c].pc = "ret"
RotateReturned(c) == call[c].op = "rotate" /\ call[c].pc = "ret"
GetReturned(c) == call[c].op = "get" /\ call[c].pc = "ret"
Running(c) == bg[c].pc # "none"

\* C1: overlapping deployRotationLambda / removeRotationLambda calls for one
\* scope never leave two background provisioning/removal tasks running for
\* that scope (exactly one call is accepted, the other gets Conflict).
C1_OneTransitionPerScope ==
    \A c1 \in Callers, c2 \in Callers :
        (c1 # c2 /\ Running(c1) /\ Running(c2))
            => bg[c1].projectId # bg[c2].projectId

\* C2, as stated: a createSecret call for a name that already has a local
\* row in the scope fails with Conflict, issues no mutating vault call and writes no row.
C2_DuplicateIsConflict ==
    \A c \in Callers :
        (CreateReturned(c) /\ call[c].existed)
            => /\ call[c].result = "Conflict"
               /\ call[c].mutations = 0
               /\ ~call[c].wrote

\* C2, amended: a createSecret call for a name that already has a local row
\* in the scope fails without a mutating vault call and without writing a row; the error
\* is Conflict when the project config resolved and the rotation
\* prerequisites held, and the NotFound / configuration error of that
\* validation otherwise.
C2_DuplicateFailsWithoutMutation ==
    \A c \in Callers :
        (CreateReturned(c) /\ call[c].existed)
            => /\ call[c].result \in {"Conflict", "NotFound", "InvalidConfiguration"}
               /\ (call[c].config = "ok" /\ (call[c].rot => call[c].cfgArn # NULL))
                     => call[c].result = "Conflict"
               /\ call[c].mutations = 0
               /\ ~call[c].wrote

C2_Witness ==
    \E c \in Callers :
        CreateReturned(c) /\ call[c].existed /\ call[c].result = "Conflict"

\* C3: when the remote create succeeded and the insert of the row failed for
\* a reason other than the unique constraint, the call has issued exactly one
\* force-delete by the time the error reaches the caller, and it wrote no row.
C3_InsertFailureRollsBackOnce ==
    \A c \in Callers :
        (CreateReturned(c) /\ call[c].result = "StoreFailure")
            => /\ call[c].deletes = 1
               /\ ~call[c].wrote
               /\ ~call[c].rotationFailed

C3_Witness ==
    \E c \in Callers :
        CreateReturned(c) /\ call[c].result = "StoreFailure" /\ call[c].deletes = 1

\* C4: when registering the rotation failed after the remote create, the
\* secret is force-deleted, no row is written and the caller receives the
\* rotation-registration error.
C4_RotationFailureSurfaces ==
    \A c \in Callers :
        (CreateReturned(c) /\ call[c].rotationFailed)
            => /\ call[c].deletes >= 1
               /\ ~call[c].wrote
               /\ call[c].result = "RotationFailure"

\* C5: when a rollback force-delete of createSecret fails, the caller still
\* receives the original error (the rotation or the store error), never the
\* error of the delete.
C5_RollbackFailureNeverMasks ==
    \A c \in Callers :
        (CreateReturned(c) /\ call[c].deleteFailed)
            => call[c].result =
                 IF call[c].rotationFailed THEN "RotationFailure" ELSE "StoreFailure"

\* C6: createSecret with rotation requested on an existing scope that has no
\* rotation function fails with a configuration error, whatever the secret
\* type, having issued no vault call and written no row.
C6_NoRotationFunctionRejected ==
    \A c \in Callers :
        (/\ CreateReturned(c)
         /\ call[c].rot
         /\ call[c].projectId \in ProjectIds
         /\ call[c].cfgArn = NULL)
            => /\ call[c].result = "InvalidConfiguration"
               /\ call[c].type \in SecretTypes
               /\ call[c].vaultCalls = 0
               /\ ~call[c].wrote

C6_Witness ==
    \E c \in Callers :
        /\ CreateReturned(c)
        /\ call[c].rot
        /\ call[c].config = "ok"
        /\ call[c].cfgArn = NULL
        /\ call[c].type = "GENERIC_SECRET"
        /\ call[c].result = "InvalidConfiguration"

\* C7: every row with rotation enabled belongs to a project whose rotation
\* lambda ARN is set.
C7_RotationEnabledHasFunction ==
    \A r \in secret :
        r.enableRotation => project[r.projectId].rotationLambdaArn # NULL

\* C8: updateSecret changes the row only in its last step, after the vault
\* accepted the new value when one was given; a call whose vault write failed
\* fails with the upstream error and has left the Secret table as it was.
C8_VaultBeforeLocal ==
    [][\A c \in Callers :
         (call'[c].op = "update" /\ call'[c] # call[c])
            => /\ (secret' # secret)
                    => /\ call[c].pc = "local"
                       /\ (call[c].value # NULL => call[c].vaultWritten)
               /\ (call[c].pc = "vault" /\ ~call'[c].vaultWritten)
                    => /\ call'[c].pc = "ret"
                       /\ call'[c].result = "UpstreamFailure"
                       /\ ~call'[c].wrote
                       /\ secret' = secret]_vars

C8_Witness ==
    \E c \in Callers :
        /\ UpdateReturned(c)
        /\ call[c].result = "UpstreamFailure"
        /\ call[c].vaultCalls = 1
        /\ ~call[c].wrote
        /\ RowsWithId(call[c].id) # {}

\* C9: a deleteSecret call that found the row ends with the row removed and
\* returns success whatever the vault did (deleted, not found, failed) and
\* also when the project config could not be resolved, in which case it
\* issued no vault call.  (Only a row that another call deleted first makes
\* the store reject the delete.)
C9_DeleteRemovesRow ==
    \A c \in Callers :
        (DeleteReturned(c) /\ call[c].result # "NotFound")
            => /\ call[c].result = IF call[c].rowAtDelete THEN "ok" ELSE "StoreFailure"
               /\ RowsWithId(call[c].id) = {}
               /\ IF call[c].client
                  THEN call[c].vaultCalls = 1
                       /\ call[c].remote \in {"deleted", "notFound", "failed"}
                  ELSE call[c].vaultCalls = 0 /\ call[c].remote = "none"

C9_Witness ==
    \E c \in Callers :
        /\ DeleteReturned(c)
        /\ call[c].result = "ok"
        /\ call[c].remote = "failed"

\* C10: when the background task of an accepted deploy completes, the
\* persisted deployment status is DEPLOYED or FAILED.
C10_DeployEndsDeployedOrFailed ==
    [][\A c \in Callers :
         (bg[c].kind = "deploy" /\ bg[c].pc = "finally" /\ bg'[c].pc = "none")
            => project'[bg[c].projectId].deploymentStatus \in {"DEPLOYED", "FAILED"}]_vars

\* C11: an id in the active set is eventually removed from it, however the
\* background task of the accepted deploy or remove ends (tool error, unlock
\* error, unparsable output, store error), so the guard does not reject
\* later requests for the scope forever.
C11_GuardReleased ==
    \A p \in ProjectIds :
        (p \in activeDeployments) ~> (p \notin activeDeployments)

C11_Witness ==
    /\ activeDeployments = {}
    /\ \A c \in Callers : ~Running(c)
    /\ project["p1"].deploymentStatus = "FAILED"
    /\ project["p1"].deploymentMessage = "Deployment failed"

\* C12: concurrent createSecret calls for one name leave at most one row and
\* one remote secret of that name, and a call that fails because the other
\* took the name (at the lookup, at DescribeSecret, at CreateSecret or at the
\* insert) fails with Conflict.
C12_LoserGetsConflict ==
    /\ \A n \in Names : Cardinality(RowsNamed(n)) <= 1
    /\ \A c \in Callers :
          (CreateReturned(c) /\ call[c].result \in {"Conflict", "ResourceExists", "P2002"})
              => call[c].result = "Conflict"

StepReturned(l, step) == lambda[l].pc = "ret" /\ lambda[l].step = step

\* C13: finishSecret for a token under which no createSecret step ever
\* stored a version throws, and its stage-move request leaves the vault (and
\* so the version holding AWSCURRENT) as it was.
C13_FinishWithoutPendingFails ==
    [][\A l \in Invokers :
         (/\ lambda[l].pc = "move"
          /\ lambda'[l] # lambda[l]
          /\ ~cycle[lambda[l].token].stored)
            => /\ lambda'[l].pc = "ret"
               /\ lambda'[l].result = "failed"
               /\ vault' = vault]_vars

C13_Witness ==
    \E l \in Invokers :
        /\ StepReturned(l, "finishSecret")
        /\ lambda[l].result = "failed"
        /\ ~cycle[lambda[l].token].stored
        /\ StrategyOf(target.type) = "apiKey"

\* C14: a testSecret that returns success has had its pending value
\* accepted by the target (the database login, GetCallerIdentity; the
\* generic type has no target and nothing to refuse), and a version holds
\* AWSCURRENT through a rotation cycle only when such a test succeeded for
\* its token: a pending value the target refuses is never promoted.
C14_UntestedNeverPromoted ==
    /\ \A l \in Invokers :
          (StepReturned(l, "testSecret") /\ lambda[l].result = "ok") => lambda[l].usable
    /\ \A t \in Tokens :
          (\E v \in TokenVersions(t) : "AWSCURRENT" \in v.stages) => cycle[t].tested

C14_Witness ==
    \E l \in Invokers :
        /\ StepReturned(l, "testSecret")
        /\ lambda[l].result = "failed"
        /\ cycle[lambda[l].token].applied
        /\ ~cycle[lambda[l].token].passed
        /\ \E v \in TokenVersions(lambda[l].token) :
               "AWSPENDING" \in v.stages /\ "AWSCURRENT" \notin v.stages

\* C15: once a createSecret step has stored a version under a token, further
\* createSecret steps for that token leave exactly one version under it, with
\* the value the first one stored, and issue no further access key at IAM.
C15_CreateIdempotent ==
    \A t \in Tokens :
        cycle[t].stored
            => /\ Cardinality(TokenVersions(t)) = 1
               /\ \A v \in TokenVersions(t) : v.value = cycle[t].first
               /\ ~cycle[t].reissued

\* C16: for the database types, a setSecret sent again for a token whose
\* pending password the target already has succeeds and changes nothing.
C16_SetIdempotent ==
    \A l \in Invokers :
        (StepReturned(l, "setSecret") /\ lambda[l].again)
            => lambda[l].result = "ok" /\ ~lambda[l].harm

\* C17: a finishSecret sent again for a token whose version already holds
\* AWSCURRENT succeeds, changes no stage, and does not deactivate or delete
\* the access key that the AWSCURRENT version holds.
C17_FinishIdempotent ==
    \A l \in Invokers :
        (StepReturned(l, "finishSecret") /\ lambda[l].again)
            => lambda[l].result = "ok" /\ ~lambda[l].harm

\* The repeated finishSecret of the key strategy, when the vault accepts the
\* repeated stage move: the key of the AWSCURRENT version stays active.
C17_CurrentKeyKept ==
    \A l \in Invokers :
        (StepReturned(l, "finishSecret") /\ lambda[l].again /\ lambda[l].result = "ok")
            => ~lambda[l].harm

\* C18: a secret that exists in the vault has exactly one version with the
\* stage AWSCURRENT, in every state reached by updates of the value and
\* rotation steps in any interleaving.
C18_OneCurrentVersion ==
    InVault(Rotated)
        => Cardinality(StageHolders(vault[Rotated].versions, "AWSCURRENT")) = 1

\* A rotation was finished and the value was updated by the service as well.
C18_Witness ==
    /\ \E t \in Tokens : cycle[t].finished
    /\ \E v \in vault[Rotated].versions : v.id = <<"svc", 2>>
    /\ \E v \in vault[Rotated].versions : v.id[1] = "tok" /\ "AWSPREVIOUS" \in v.stages

ListedTransitions ==
    { <<"IDLE", "DEPLOYING">>, <<"DEPLOYING", "DEPLOYED">>, <<"DEPLOYING", "FAILED">>,
      <<"DEPLOYED", "REMOVING">>, <<"FAILED", "REMOVING">>, <<"IDLE", "REMOVING">>,
      <<"REMOVING", "IDLE">>, <<"REMOVING", "FAILED">> }

\* C20: every change of a project's stored deployment status is one of the
\* listed transitions; no other change, such as DEPLOYED to DEPLOYING, occurs.
C20_OnlyListedTransitions ==
    [][\A p \in ProjectIds :
          project'[p].deploymentStatus # project[p].deploymentStatus
              => <<project[p].deploymentStatus, project'[p].deploymentStatus>>
                     \in ListedTransitions]_vars

C22_NoCredentialsRejected ==
    \A p \in ProjectIds :
        ~project[p].credentials
            => /\ project[p].deploymentStatus # "DEPLOYING"
               /\ \A c \in Callers : call[c] # Returned("deploy", p, "Accepted")

\* C23: a project whose stored deployment status is DEPLOYED has a rotation
\* function reference stored.
C23_DeployedHasReference ==
    \A p \in ProjectIds :
        project[p].deploymentStatus = "DEPLOYED"
            => project[p].rotationLambdaArn # NULL

\* C24: when the background task of an accepted remove has written its final
\* status, the project is IDLE with no rotation function reference after a
\* removal that succeeded, and FAILED with the reference it had after a
\* removal that failed.
C24_RemoveEndsIdleOrFailed ==
    [][\A c \in Callers :
         (/\ bg[c].kind = "remove"
          /\ bg[c].pc \in {"setDone", "setFailed"}
          /\ bg'[c].pc = "finally")
            => LET before == project[bg[c].projectId]
                   after == project'[bg[c].projectId]
               IN IF bg[c].pc = "setDone"
                  THEN /\ after.deploymentStatus = "IDLE"
                       /\ after.rotationLambdaArn = NULL
                  ELSE /\ after.deploymentStatus = "FAILED"
                       /\ after.rotationLambdaArn = before.rotationLambdaArn]_vars

\* C25: rotateSecret on a secret whose rotation flag is false fails with the
\* domain error, makes no vault call and does not stamp lastRotatedAt.
C25_DisabledRotationRefused ==
    \A c \in Callers :
        (RotateReturned(c) /\ call[c].found /\ ~call[c].enabled)
            => /\ call[c].result = "RotationDisabled"
               /\ call[c].vaultCalls = 0
               /\ ~call[c].wrote
               /\ \A r \in RowsWithId(call[c].id) : r.lastRotatedAt = 0

C25_Witness ==
    \E c \in Callers :
        /\ RotateReturned(c)
        /\ call[c].result = "RotationDisabled"
        /\ InVault(call[c].name)

\* C26: rotateSecret stamps lastRotatedAt only after a RotateSecret call that
\* succeeded; when the call fails, rotateSecret fails with the wrapped vault
\* error, the row is not stamped, and RotateSecret was sent once.
C26_StampOnlyAfterRotate ==
    \A c \in Callers :
        RotateReturned(c)
            => /\ call[c].wrote => call[c].rotated
               /\ call[c].vaultCalls <= 1
               /\ (call[c].vaultCalls = 1 /\ ~call[c].rotated)
                     => call[c].result = "UpstreamFailure" /\ ~call[c].wrote
               /\ call[c].result = "ok" => call[c].rotated /\ call[c].wrote

\* A RotateSecret call failed on a secret that another call had stamped.
C26_Witness ==
    \E c \in Callers :
        /\ RotateReturned(c)
        /\ call[c].vaultCalls = 1
        /\ ~call[c].rotated
        /\ \E r \in RowsWithId(call[c].id) : r.lastRotatedAt # 0

\* C27: the value getSecretWithValue returns is the value of the version
\* that holds AWSCURRENT when the vault is read: the created value, the value
\* of the last update, or the value a finished rotation promoted.
C27_ReturnsCurrentValue ==
    [][\A c \in Callers :
         (/\ call[c].op = "get"
          /\ call[c].pc = "vault"
          /\ call'[c].pc = "ret"
          /\ call'[c].result = "ok")
            => \E v \in vault[call[c].name].versions :
                  /\ "AWSCURRENT" \in v.stages
                  /\ call'[c].value = v.value]_vars

\* A value promoted by a rotation was returned while the created value is
\* still held as AWSPREVIOUS.
C27_Witness ==
    \E c \in Callers :
        /\ GetReturned(c)
        /\ call[c].result = "ok"
        /\ \E t \in Tokens : \E v \in TokenVersions(t) : v.value = call[c].value
        /\ \E v \in vault[Rotated].versions :
              "AWSPREVIOUS" \in v.stages /\ v.value = "v1"

\* C28: when the vault read fails, getSecretWithValue fails with the wrapped
\* error and returns neither the row nor a value.
C28_NoLocalFallback ==
    \A c \in Callers :
        (GetReturned(c) /\ call[c].remote = "failed")
            => /\ call[c].result = "UpstreamFailure"
               /\ call[c].value = NULL
               /\ ~call[c].metadata

C28_Witness ==
    \E c \in Callers :
        /\ GetReturned(c)
        /\ call[c].remote = "failed"
        /\ InVault(call[c].name)

\* C29: createSecret with rotation requested and type GENERIC_SECRET is
\* rejected with the configuration error before any vault call, also on a
\* project that has a rotation function.
C29_GenericRotationRejected ==
    \A c \in Callers :
        (/\ CreateReturned(c)
         /\ call[c].rot
         /\ call[c].type = "GENERIC_SECRET"
         /\ call[c].config = "ok")
            => /\ call[c].result = "InvalidConfiguration"
               /\ call[c].vaultCalls = 0

\* C30: a finishSecret of the key strategy that succeeds has deactivated and
\* then deleted the access key of the version it superseded, after the stage
\* move, unless a call of the cleanup failed; such a failure does not fail
\* the step and leaves the vault as the stage move made it.
C30_SupersededKeyRemoved ==
    [][\A l \in Invokers :
         LET f == lambda[l]
             key == f.currentValue
         IN (/\ f.step = "finishSecret"
             /\ f.pc \in {"move", "deactivate", "deleteKey"}
             /\ StrategyOf(target.type) = "apiKey"
             /\ ~f.again
             /\ lambda'[l] # f)
               => /\ f.pc = "deleteKey"
                     => /\ cycle[f.token].finished
                        /\ \A k \in target.keys : k.id = key => ~k.active
                  /\ f.pc \in {"deactivate", "deleteKey"}
                     => /\ lambda'[l].pc = "ret" => lambda'[l].result = "ok"
                        /\ vault' = vault
                  /\ (f.pc = "move" /\ lambda'[l].pc = "ret" /\ lambda'[l].result = "ok")
                     => \A k \in target'.keys : k.id # key]_vars

\* C31: createSecret without rotation on a scope that has vault credentials
\* and no rotation function passes validation: its config resolves and it is
\* not refused with the configuration error.
C31_FunctionNeededOnlyForRotation ==
    \A c \in Callers :
        (/\ CreateReturned(c)
         /\ ~call[c].rot
         /\ call[c].projectId \in ProjectIds
         /\ project[call[c].projectId].credentials
         /\ call[c].cfgArn = NULL)
            => /\ call[c].config = "ok"
               /\ call[c].result # "InvalidConfiguration"


\* C32: once every createSecret call has returned, every persisted row has a
\* remote secret of its name in the vault: no rollback delete of a failing
\* call removed the secret another call created.
C32_RowsHaveRemoteSecret ==
    (\A c \in Callers : call[c].pc \in {"idle", "ret"})
        => \A r \in secret : InVault(r.name)

\* C33: when a createSecret call that created the remote secret returns an
\* error and none of its rollback deletes failed, the vault no longer holds
\* the secret; the duplicate-key conflict of the insert is one such return.
C33_FailedCreateLeavesNoSecret ==
    [][\A c \in Callers :
          (/\ call[c].op = "create" /\ call[c].created
           /\ call'[c].pc = "ret" /\ call'[c].result # "ok"
           /\ ~call'[c].deleteFailed)
              => ~InVault(call[c].name)']_vars

\* C34: a createSecret call issues at most one force-delete, whichever step
\* failed.
C34_AtMostOneForceDelete ==
    \A c \in Callers : call[c].op = "create" => call[c].deletes <= 1


\* The target database accepts the password of the AWSCURRENT version of
\* the rotated secret.
CurrentAuthenticates ==
    PasswordAccepted(CurrentValue(vault[Rotated].versions))

\* C35: for a database secret, no step of the rotation function, the steps
\* of a cycle that stops at a failed setSecret or testSecret included, takes
\* the secret from a state where the credential of AWSCURRENT authenticates
\* against the target to one where it does not.
C35_CurrentAlwaysAuthenticates ==
    [][(/\ StrategyOf(target.type) = "database"
        /\ lambda' # lambda
        /\ CurrentAuthenticates)
           => CurrentAuthenticates']_vars


\* C36: a project whose persisted deployment status is DEPLOYING or REMOVING
\* has its id in activeDeployments.
C36_InProgressStatusIsOwned ==
    \A p \in ProjectIds :
        project[p].deploymentStatus \in {"DEPLOYING", "REMOVING"}
            => p \in activeDeployments


\* C37: the steps of a deployRotationLambda or removeRotationLambda call that
\* is rejected (Conflict at the guard, NotFound after findUnique) leave
\* activeDeployments, the project rows (status, message and rotation function
\* reference) and the background tasks as they were.
C37_RejectedTransitionChangesNothing ==
    [][\A c \in Callers :
          (/\ call'[c] # call[c]
           /\ call'[c].op \in {"deploy", "remove"}
           /\ \/ call'[c].projectId \notin ProjectIds
              \/ call'[c].result \in {"Conflict", "NotFound"})
              => /\ activeDeployments' = activeDeployments
                 /\ project' = project
                 /\ bg' = bg]_vars

C37_Witness ==
    \E c \in Callers :
        /\ call[c].op \in {"deploy", "remove"} /\ call[c].pc = "ret"
        /\ call[c].result = "Conflict" /\ call[c].projectId \in activeDeployments
        /\ ~Running(c)
        /\ \E d \in Callers \ {c} : Running(d) /\ bg[d].projectId = call[c].projectId


\* C38: no step of a deploy background run other than the stored write of the
\* reference changes the rotation function reference of any project; a run
\* that fails before that write (credentials missing, command failed, unlock
\* failed, retry failed, ARN not found in the output, write rejected) has
\* taken only such steps.
C38_FailedDeployKeepsReference ==
    [][\A c \in Callers :
          (/\ bg[c].kind = "deploy"
           /\ bg'[c] # bg[c]
           /\ ~(bg[c].pc = "save" /\ bg'[c].pc = "setDone"))
              => \A p \in ProjectIds :
                   project'[p].rotationLambdaArn = project[p].rotationLambdaArn]_vars

C38_Witness ==
    \E c \in Callers :
        /\ bg[c].kind = "deploy" /\ bg[c].pc = "setFailed"
        /\ bg[c].unlocks = 1 /\ bg[c].execs = 2
        /\ project[bg[c].projectId].rotationLambdaArn # NULL


\* The members createSecret of a strategy replaces.
RotatedKeys(kind) ==
    IF kind = "database" THEN {"password"}
    ELSE IF kind = "generic" THEN {"value"}
    ELSE {"accessKeyId", "secretAccessKey", "username"}

\* C39: the payload a rotation createSecret stores under its token equals the
\* AWSCURRENT payload on every member except the rotated ones (password for
\* the database types, value for the generic type, accessKeyId,
\* secretAccessKey and username for the key type), and the step leaves the
\* AWSCURRENT version, its value and its labels as they were.
C39_PendingDiffersOnlyOnRotatedKeys ==
    [][\A v \in vault'[Rotated].versions \ vault[Rotated].versions :
          v.id[1] = "tok"
              => /\ \A k \in PayloadKeys \ RotatedKeys(StrategyOf(target.type)) :
                      ParseSecretString(v.value)[k]
                          = ParseSecretString(CurrentValue(vault[Rotated].versions))[k]
                 /\ StageHolders(vault'[Rotated].versions, "AWSCURRENT")
                      = StageHolders(vault[Rotated].versions, "AWSCURRENT")]_vars

C39_Witness ==
    \E v \in vault[Rotated].versions :
        /\ v.id[1] = "tok" /\ "AWSPENDING" \in v.stages
        /\ ParseSecretString(v.value)["host"] = "a"
        /\ ParseSecretString(v.value)["password"] \in Randoms
        /\ ParseSecretString(CurrentValue(vault[Rotated].versions))["password"] = "a"
        /\ ParseSecretString(CurrentValue(vault[Rotated].versions))["value"] = Undefined

====
